---- MODULE Spec2Model ----
(***************************************************************************)
(* JotPrintBot: the print queue of AsyncPrinter (src/printer.py), its      *)
(* single consumer loop with bounded retry, the rendering of one PrintTask *)
(* into device commands, the status probe, the handlers and middlewares of *)
(* src/bot.py, and build_print_job and message_to_queue_item of            *)
(* src/formatter.py.                                                       *)
(***************************************************************************)
EXTENDS Integers, Sequences, FiniteSets, TLC

\* ----------------------------------------------------------------------
\* Bounds of the model
\* ----------------------------------------------------------------------
MaxTasks == 2
MaxDirect == 1
\* device calls that may fail within one executor job
MaxFaults == 2
\* characters of a message text
MaxText == 3
\* entities of a message
MaxSpans == 2
\* seconds the clock runs
MaxClock == 12

\* longest timestamp and longest user name of a header
MaxHeader == 2
\* widest header line
MaxWidth == 5
\* how far, in tenths, a strength of the image enhancement is from 1.0
MaxDelta == 1
\* tasks enqueued before the producers stop, in the runs under fairness
MaxBurst == 1

\* ----------------------------------------------------------------------
\* Program constants
\* ----------------------------------------------------------------------
\* a retry loop that runs once more: for attempt in range(4)
MaxAttemptsFour == 3 + 1

\* for attempt in range(3)
MaxAttempts == 3
\* a queue built with room for one task: asyncio.Queue(maxsize=1)
QueueMaxsizeOne == 0 + 1

\* asyncio.Queue() is built without maxsize: 0 means unbounded
QueueMaxsize == 0
\* setup(): ThrottlingMiddleware(key="print", rate_limit=1, ...)
RateLimit == 1
\* config.PRINT_RATE_LIMIT_SECONDS, the period of the throttling middleware
PrintRateLimitSeconds == 10

\* config.HEADER_LINE_WIDTH (default)
HeaderLineWidth == 42
\* the factor 1.0 of an ImageEnhance step, factors being counted in tenths
Neutral == 10
\* handle_message: if len(text) > 1000
TextLimit == 1000
\* qr_handler: if len(text) > 500
QrLimit == 500
\* getattr(config, "IMAGE_PRINT_WIDTH", 384)
ImagePrintWidth == 384

\* ----------------------------------------------------------------------
\* PrintTask model (src/print_tasks.py)
\* ----------------------------------------------------------------------
StyleKeys == {"bold", "underline", "font", "double_height", "double_width", "invert"}

Segment(t, s) == [text |-> t, style |-> s]

\* TextPayload.content is a plain str (plain) or a PrintJob (job: list of Segment)
TextPayload(plain, job) == [kind |-> "text", plain |-> plain, job |-> job, w |-> 0, h |-> 0]
QrPayload == [kind |-> "qr", plain |-> FALSE, job |-> <<>>, w |-> 0, h |-> 0]
\* ImagePayload carries the path of a temp file; w, h are the stored picture's size
ImagePayload(w, h) == [kind |-> "image", plain |-> FALSE, job |-> <<>>, w |-> w, h |-> h]

PrintTask(hdr, payload) == [header |-> hdr, payload |-> payload]

\* the PrintJobs message_to_queue_item hands to handle_message in this model
PrintJobs == { << Segment("Hello", {"bold"}), Segment("", {"font"}), Segment(" ", {}) >> }

\* what is left of a PrintTask once the consumer loop has let go of it
Discarded == PrintTask(FALSE, [kind |-> "none", plain |-> FALSE, job |-> <<>>, w |-> 0, h |-> 0])

\* the pictures photo_handler downloads in this model: portrait, landscape
Pictures == { <<384, 500>>, <<800, 600>> }

Flows == {"consumer", "direct"}

VARIABLES
  mock,         \* config.MOCK_PRINTER / AsyncPrinter._mock
  headerOn,     \* config.PRINT_HEADER_ENABLED
  imageCfg,     \* config.IMAGE_ENHANCE_ENABLED: "undefined", "on", "off" ("unread" until first read)
  queue,        \* AsyncPrinter.queue: task ids, head first
  blocked,      \* tasks of producers suspended in queue.put
  unfinished,   \* asyncio.Queue._unfinished_tasks
  tasks,        \* the PrintTasks created so far, by id (Discarded once consumed)
  files,        \* ids of the image tasks whose temp file exists
  cpc,          \* position of the coroutine of each flow
  cur,          \* task id the consumer holds (0: none)
  firstFail,    \* what made attempt 1 of that task fail ("none", "device", "other"), kept until attempt 2 is over
  attempt,      \* loop variable of the retry loop of each flow
  tpc,          \* position of the executor job of each flow
  segi,         \* index of the segment being printed by each flow
  log,          \* device commands issued by the current executor job of each flow
  mode,         \* device mode: "text" or "graphics"
  spc,          \* position of the status() call
  sres,         \* value status() returns
  probed,       \* how is_online and paper_status answered in the current status() call
  ndirect,      \* print_qr() calls made so far
  attempts,     \* per task: render attempts started
  results,      \* per task: outcomes of the finished render attempts
  outcome,      \* per task: "none", "queued", "taken", "printed", "dropped"
  dequeues,     \* per task: times queue.get returned it
  doneCalls,    \* per task: times queue.task_done was called for it
  msgText,      \* build_print_job: the text argument, a sequence of characters
  msgEntities,  \* build_print_job: the entities argument
  normEntities, \* build_print_job: norm_entities, the result of _extract_entities
  built,        \* build_print_job has returned
  printJob,     \* build_print_job: the PrintJob returned
  message,      \* message_to_queue_item: the Message argument
  queueItem,    \* message_to_queue_item: the value returned (None: no call has returned)
  formatting,   \* config.PRINT_TELEGRAM_FORMATTING
  clock,        \* time(), in seconds
  userTimestamps, \* ThrottlingMiddleware.user_timestamps[("print", uid)], by uid
  event,        \* the update the dispatcher handled last
  calls,        \* for that update: calls of the throttling middleware and of the handler
  returned,     \* for that update: what each middleware returned
  answers,      \* for that update: the texts sent with event.answer
  replies,      \* the texts the handler that ran last sent with message.reply
  header,       \* _print_header: the HeaderInfo argument
  width,        \* _print_header: config.HEADER_LINE_WIDTH
  headerLog,    \* _print_header: the device calls of the call, in order
  settings,     \* _enhance_image: the IMAGE_* values of config
  img,          \* _enhance_image: the image passed and the image returned
  putTimes      \* per user: the times at which a handler run by the dispatcher put a task on the queue

cfgVars == <<mock, headerOn, imageCfg>>
queueVars == <<queue, blocked, unfinished, tasks>>
coVars == <<cpc, cur, firstFail, attempt>>
jobVars == <<tpc, segi, log>>
statusVars == <<spc, sres, probed>>
histVars == <<attempts, results, outcome, dequeues, doneCalls>>
fmtVars == <<msgText, msgEntities, normEntities, built, printJob, message, queueItem>>
botVars == <<formatting, clock, userTimestamps, event, calls, returned, answers, replies>>
callVars == <<header, width, headerLog, settings, img, putTimes>>
vars ==
  <<cfgVars, queueVars, files, coVars, jobVars, mode, statusVars, ndirect, histVars, fmtVars,
    botVars, callVars>>

Ids == 1..MaxTasks

\* Python values of the types a Message attribute can have: None, a str (its
\* characters), a list (its items), a MagicMock attribute
PyNone == [type |-> "NoneType", value |-> <<>>]

PyStr(s) == [type |-> "str", value |-> s]

PyList(l) == [type |-> "list", value |-> l]

PyMock == [type |-> "MagicMock", value |-> <<>>]

\* a Message: text, caption, entities, caption_entities
Message(text, caption, entities, caption_entities) ==
  [text |-> text, caption |-> caption,
   entities |-> entities, caption_entities |-> caption_entities]

NoMessage == Message(PyNone, PyNone, PyNone, PyNone)

\* event.from_user: a user with an id, or None
User(id) == [known |-> TRUE, id |-> id]

NoUser == [known |-> FALSE, id |-> 0]

\* an update as the middlewares see it: its sender and its text
Event(u, text) == [from_user |-> u, text |-> text]

NoEvent == Event(NoUser, PyNone)

\* config.WHITELIST, and the id of a user who is not on it
Whitelist == {111, 222}

Stranger == 99999

UserIds == Whitelist \cup {Stranger}

\* no middleware and no handler has been called
NoCalls == [throttle |-> 0, handler |-> 0]

\* what AuthMiddleware and ThrottlingMiddleware returned ("unset": not called)
Returned(a, t) == [auth |-> a, throttle |-> t]

\* the dispatcher after setup(): no update handled, no timestamp kept
Polling ==
  /\ clock = 0
  /\ userTimestamps = [u \in UserIds |-> <<>>]
  /\ event = NoEvent
  /\ calls = NoCalls
  /\ returned = Returned("unset", "unset")
  /\ answers = <<>>
  /\ replies = <<>>

\* no _print_header call and no _enhance_image call is being looked at
NoHeaderInfo == [timestamp |-> <<>>, user |-> <<>>]

NoSettings ==
  [grayscale |-> FALSE, contrast |-> Neutral, sharpness |-> Neutral, brightness |-> Neutral,
   dithering |-> FALSE]

\* a PIL image: its mode and the operations that made it from the decoded picture
Image(m, s) == [mode |-> m, steps |-> s]

NoImage == Image("none", <<>>)

\* a call of _enhance_image: its argument and what it returned
EnhanceCall(given, result) == [given |-> given, result |-> result]

Uncalled ==
  /\ header = NoHeaderInfo
  /\ width = HeaderLineWidth
  /\ headerLog = <<>>
  /\ settings = NoSettings
  /\ img = EnhanceCall(NoImage, NoImage)
  /\ putTimes = [u \in UserIds |-> <<>>]

\* paper level as status() reports it: an int, or None
Paper(p) == [known |-> TRUE, level |-> p]

PaperNone == [known |-> FALSE, level |-> 0]

StatusResult(o, p) == [online |-> o, paper |-> p]

NoResult == StatusResult(FALSE, PaperNone)

\* the answers of the two probes of one status() call: "unasked", "raised", or
\* the value the device adapter returned
Probed(o, p) == [online |-> o, paper |-> p]

NoProbe == Probed("unasked", "unasked")

\* AsyncPrinter(): an empty queue, no job, no status call; the consumer loop
\* main() starts is at its first queue.get
Constructed ==
  /\ queue = <<>>
  /\ blocked = <<>>
  /\ unfinished = 0
  /\ tasks = <<>>
  /\ files = {}
  /\ cpc = [f \in Flows |-> IF f = "consumer" THEN "get" ELSE "idle"]
  /\ cur = 0
  /\ firstFail = "none"
  /\ attempt = [f \in Flows |-> 0]
  /\ tpc = [f \in Flows |-> "none"]
  /\ segi = [f \in Flows |-> 0]
  /\ log = [f \in Flows |-> <<>>]
  /\ mode = "text"
  /\ spc = "idle"
  /\ sres = NoResult
  /\ probed = NoProbe
  /\ ndirect = 0
  /\ attempts = [i \in Ids |-> 0]
  /\ results = [i \in Ids |-> <<>>]
  /\ outcome = [i \in Ids |-> "none"]
  /\ dequeues = [i \in Ids |-> 0]
  /\ doneCalls = [i \in Ids |-> 0]

\* the bot at start-up: the configuration is read, no message is being formatted
Init ==
  /\ mock \in BOOLEAN
  /\ headerOn \in BOOLEAN
  /\ imageCfg = "unread"
  /\ Constructed
  /\ msgText = <<>>
  /\ msgEntities = <<>>
  /\ normEntities = <<>>
  /\ built = FALSE
  /\ printJob = <<>>
  /\ message = NoMessage
  /\ queueItem = PyNone
  /\ formatting = TRUE
  /\ Polling
  /\ Uncalled

\* ----------------------------------------------------------------------
\* asyncio.Queue as AsyncPrinter uses it
\* ----------------------------------------------------------------------
\* Queue.full(): a maxsize <= 0 never reports full
Full(q) == QueueMaxsize > 0 /\ Len(q) >= QueueMaxsize

\* await printer.queue.put(task): append at the tail, or suspend while full
Put(t) ==
  LET id == Len(tasks) + 1 IN
  /\ Len(tasks) < MaxTasks
  /\ tasks' = Append(tasks, t)
  /\ IF Full(queue)
       THEN /\ blocked' = Append(blocked, id)
            /\ UNCHANGED <<queue, unfinished>>
            /\ outcome' = [outcome EXCEPT ![id] = "blocked"]
       ELSE /\ queue' = Append(queue, id)
            /\ unfinished' = unfinished + 1
            /\ outcome' = [outcome EXCEPT ![id] = "queued"]
            /\ UNCHANGED blocked

\* ----------------------------------------------------------------------
\* Producers (src/bot.py)
\* ----------------------------------------------------------------------
\* handle_message: the accepted text becomes a TextPayload (str or PrintJob) and is
\* put on the queue; a blank or over-long text is only answered and changes nothing
handle_message ==
  /\ \E plain \in BOOLEAN :
       \E job \in (IF plain THEN {<<>>} ELSE PrintJobs) :
         Put(PrintTask(headerOn, TextPayload(plain, job)))
  /\ UNCHANGED <<cfgVars, fmtVars, botVars, callVars, files, coVars, jobVars, mode, statusVars, ndirect>>
  /\ UNCHANGED <<attempts, results, dequeues, doneCalls>>

\* qr_handler: the accepted text becomes a QrPayload and is put on the queue; an
\* empty or over-long text is only answered and changes nothing
qr_handler ==
  /\ Put(PrintTask(headerOn, QrPayload))
  /\ UNCHANGED <<cfgVars, fmtVars, botVars, callVars, files, coVars, jobVars, mode, statusVars, ndirect>>
  /\ UNCHANGED <<attempts, results, dequeues, doneCalls>>

\* photo_handler: the downloaded picture is a temp file named in an ImagePayload;
\* a failed download is only answered and changes nothing
photo_handler ==
  /\ \E pic \in Pictures : Put(PrintTask(headerOn, ImagePayload(pic[1], pic[2])))
  /\ files' = files \cup {Len(tasks) + 1}
  /\ UNCHANGED <<cfgVars, fmtVars, botVars, callVars, coVars, jobVars, mode, statusVars, ndirect>>
  /\ UNCHANGED <<attempts, results, dequeues, doneCalls>>

\* ----------------------------------------------------------------------
\* Entry points of the blocking render job (_do_print_task)
\* ----------------------------------------------------------------------
\* for seg in content: if not seg.text: continue -- index of the next segment printed
RECURSIVE NextSeg(_, _)
NextSeg(job, i) ==
  IF i > Len(job) THEN i
  ELSE IF job[i].text = "" THEN NextSeg(job, i + 1) ELSE i

\* where the segment loop goes from index i: style apply, text write, or the cut
SegPc(job, i) ==
  IF NextSeg(job, i) > Len(job) THEN "cut1"
  ELSE IF job[NextSeg(job, i)].style = {} THEN "seg_text" ELSE "seg_apply"

\* dispatch on the payload type
BodyPc(t) ==
  CASE t.payload.kind = "text" /\ t.payload.plain -> "text"
    [] t.payload.kind = "text" /\ ~t.payload.plain -> SegPc(t.payload.job, 1)
    [] t.payload.kind = "qr" -> "qr"
    [] t.payload.kind = "image" -> "img_open"

\* index of the first segment the loop prints (0 when the body is no PrintJob)
BodySeg(t) ==
  IF t.payload.kind = "text" /\ ~t.payload.plain THEN NextSeg(t.payload.job, 1) ELSE 0

\* a render job that prints a header whether the task has one or not
EntryPcHeaderAlways(t) == "hdr_font"

\* if task.header is not None: self._print_header(task.header)
EntryPc(t) == IF t.header THEN "hdr_font" ELSE BodyPc(t)

\* one device command as the job's log keeps it: the call, its distinguishing
\* argument, how it ended ("ok", "err", "type" for a TypeError) and the device
\* mode it was issued in
Cmd(c, a, r) == [cmd |-> c, arg |-> a, res |-> r, mode |-> mode]

Emit(f, c, a, r) == log' = [log EXCEPT ![f] = Append(@, Cmd(c, a, r))]

Goto(f, p) == tpc' = [tpc EXCEPT ![f] = p]

\* device calls of the job's log that did not end well
RECURSIVE Faults(_)
Faults(l) ==
  IF l = <<>> THEN 0
  ELSE (IF Head(l).res = "ok" THEN 0 ELSE 1) + Faults(Tail(l))

\* how the next device call of flow f may end, S being the ways the call can end
Outcomes(f, S) == IF Faults(log[f]) < MaxFaults THEN S ELSE {"ok"}

\* the calls of a job's log that go to the device (python-escpos), as opposed
\* to Pillow ("pil") and the file system ("unlink")
DeviceCalls == {"set", "text", "textln", "qr", "image", "raw", "cut"}

DeviceFailed(l) == \E k \in 1..Len(l) : l[k].cmd \in DeviceCalls /\ l[k].res # "ok"

\* the exception print_task catches and logs for a failed attempt with log l:
\* raised by a device call ("device"), or by Image.open or by the read of a
\* missing config value ("other")
FailureCause(l) ==
  IF \/ \E k \in 1..Len(l) : l[k].cmd = "pil" /\ l[k].res # "ok"
     \/ imageCfg = "undefined" /\ \E k \in 1..Len(l) : l[k].cmd = "pil"
    THEN "other"
    ELSE "device"

\* run_in_executor(None, self._do_print_task, task)
StartJob(f, t) ==
  /\ tpc' = [tpc EXCEPT ![f] = EntryPc(t)]
  /\ segi' = [segi EXCEPT ![f] = IF t.header THEN 0 ELSE BodySeg(t)]
  /\ log' = [log EXCEPT ![f] = <<>>]

\* queue.task_done() on a queue with u unfinished tasks: one fewer; ValueError
\* (which ends _process_queue) when called more often than put
TaskDone(id, u) ==
  IF u <= 0
    THEN /\ cpc' = [cpc EXCEPT !["consumer"] = "dead"]
         /\ unfinished' = u
         /\ UNCHANGED doneCalls
    ELSE /\ cpc' = [cpc EXCEPT !["consumer"] = "get"]
         /\ unfinished' = u - 1
         /\ doneCalls' = [doneCalls EXCEPT ![id] = @ + 1]

\* a queue that hands out the newest item first (LifoQueue)
PoppedNewest(q) == q[Len(q)]

\* the item queue.get() returns: the oldest one (asyncio.Queue is a FIFO)
Popped(q) == Head(q)

\* the queue without the item get() returned (ids are unique)
Remaining(q) == SelectSeq(q, LAMBDA x : x # Popped(q))

\* queue.get(): pop an item; a producer suspended in put is resumed and appends
Get(o) ==
  IF blocked # <<>>
    THEN /\ queue' = Append(Remaining(queue), Head(blocked))
         /\ blocked' = Tail(blocked)
         /\ outcome' = [outcome EXCEPT ![Popped(queue)] = o, ![Head(blocked)] = "queued"]
    ELSE /\ queue' = Remaining(queue)
         /\ UNCHANGED blocked
         /\ outcome' = [outcome EXCEPT ![Popped(queue)] = o]

\* _unfinished_tasks after the get: the resumed producer's put_nowait counts its task
GetUnfinished == IF blocked # <<>> THEN unfinished + 1 ELSE unfinished

\* ----------------------------------------------------------------------
\* The consumer loop (_process_queue) and the retry loop (print_task)
\* ----------------------------------------------------------------------
\* mock mode: get, print_task logs a preview (an image's temp file is unlinked,
\* a failing unlink is only logged) and returns, task_done
ProcessQueueMock ==
  /\ mock
  /\ cpc["consumer"] = "get"
  /\ queue # <<>>
  /\ LET id == Popped(queue) IN
       /\ Get("printed")
       /\ dequeues' = [dequeues EXCEPT ![id] = @ + 1]
       /\ IF tasks[id].payload.kind = "image"
            THEN \E r \in {"ok", "err"} : files' = IF r = "ok" THEN files \ {id} ELSE files
            ELSE UNCHANGED files
       /\ TaskDone(id, GetUnfinished)
       /\ tasks' = [tasks EXCEPT ![id] = Discarded]
  /\ UNCHANGED <<cfgVars, fmtVars, botVars, callVars, cur, firstFail, attempt, jobVars, mode, statusVars, ndirect>>
  /\ UNCHANGED <<attempts, results>>

\* task = await self.queue.get(); print_task enters its retry loop and hands
\* the first attempt to the executor
ProcessQueueGet ==
  /\ ~mock
  /\ cpc["consumer"] = "get"
  /\ queue # <<>>
  /\ LET id == Popped(queue) IN
       /\ Get("taken")
       /\ unfinished' = GetUnfinished
       /\ dequeues' = [dequeues EXCEPT ![id] = @ + 1]
       /\ cur' = id
       /\ firstFail' = "none"
       /\ attempt' = [attempt EXCEPT !["consumer"] = 0]
       /\ attempts' = [attempts EXCEPT ![id] = @ + 1]
       /\ StartJob("consumer", tasks[id])
  /\ cpc' = [cpc EXCEPT !["consumer"] = "await"]
  /\ UNCHANGED <<cfgVars, fmtVars, botVars, callVars, tasks, files, mode, statusVars, ndirect>>
  /\ UNCHANGED <<results, doneCalls>>

\* the executor job is over: the coroutine leaves the job's thread state behind
EndJob(f) ==
  /\ tpc' = [tpc EXCEPT ![f] = "none"]
  /\ segi' = [segi EXCEPT ![f] = 0]
  /\ log' = [log EXCEPT ![f] = <<>>]

\* the attempt returned: print_task returns, the finally clause calls task_done
PrintTaskReturn ==
  /\ cpc["consumer"] = "await"
  /\ tpc["consumer"] = "ret"
  /\ results' = [results EXCEPT ![cur] = Append(@, "ok")]
  /\ outcome' = [outcome EXCEPT ![cur] = "printed"]
  /\ TaskDone(cur, unfinished)
  /\ tasks' = [tasks EXCEPT ![cur] = Discarded]
  /\ cur' = 0
  /\ firstFail' = "none"
  /\ EndJob("consumer")
  /\ UNCHANGED <<cfgVars, fmtVars, botVars, callVars, queue, blocked, files, attempt, mode, statusVars, ndirect>>
  /\ UNCHANGED <<attempts, dequeues>>

\* a failed attempt whose exception ends the consumer coroutine, the task in hand
PrintTaskRetryEscapes ==
  /\ cpc["consumer"] = "await"
  /\ tpc["consumer"] = "raise"
  /\ attempt["consumer"] # MaxAttempts - 1
  /\ results' = [results EXCEPT ![cur] = Append(@, "fail")]
  /\ firstFail' = IF attempt["consumer"] = 0 THEN FailureCause(log["consumer"]) ELSE firstFail
  /\ cpc' = [cpc EXCEPT !["consumer"] = "dead"]
  /\ EndJob("consumer")
  /\ UNCHANGED <<cfgVars, fmtVars, botVars, callVars, queueVars, files, cur, attempt, mode, statusVars, ndirect>>
  /\ UNCHANGED <<attempts, outcome, dequeues, doneCalls>>

\* the attempt raised and attempt # 2: log, then await asyncio.sleep(0.5)
PrintTaskRetry ==
  /\ cpc["consumer"] = "await"
  /\ tpc["consumer"] = "raise"
  /\ attempt["consumer"] # MaxAttempts - 1
  /\ results' = [results EXCEPT ![cur] = Append(@, "fail")]
  /\ firstFail' = IF attempt["consumer"] = 0 THEN FailureCause(log["consumer"]) ELSE firstFail
  /\ cpc' = [cpc EXCEPT !["consumer"] = "sleep"]
  /\ EndJob("consumer")
  /\ UNCHANGED <<cfgVars, fmtVars, botVars, callVars, queueVars, files, cur, attempt, mode, statusVars, ndirect>>
  /\ UNCHANGED <<attempts, outcome, dequeues, doneCalls>>

\* the sleep is over: the next iteration of the retry loop starts the next attempt
PrintTaskWake ==
  /\ cpc["consumer"] = "sleep"
  /\ attempt' = [attempt EXCEPT !["consumer"] = @ + 1]
  /\ attempts' = [attempts EXCEPT ![cur] = @ + 1]
  /\ StartJob("consumer", tasks[cur])
  /\ cpc' = [cpc EXCEPT !["consumer"] = "await"]
  /\ firstFail' = IF attempt["consumer"] = 0 THEN firstFail ELSE "none"
  /\ UNCHANGED <<cfgVars, fmtVars, botVars, callVars, queueVars, files, cur, mode, statusVars, ndirect>>
  /\ UNCHANGED <<results, outcome, dequeues, doneCalls>>

\* a consumer loop that puts the failed task back instead of dropping it
PrintTaskGiveUpRequeue ==
  /\ cpc["consumer"] = "await"
  /\ tpc["consumer"] = "raise"
  /\ attempt["consumer"] = MaxAttempts - 1
  /\ results' = [results EXCEPT ![cur] = Append(@, "fail")]
  /\ outcome' = [outcome EXCEPT ![cur] = "queued"]
  /\ queue' = Append(queue, cur)
  /\ cpc' = [cpc EXCEPT !["consumer"] = "get"]
  /\ cur' = 0
  /\ firstFail' = "none"
  /\ EndJob("consumer")
  /\ UNCHANGED <<cfgVars, fmtVars, botVars, callVars, blocked, unfinished, tasks, files, attempt, mode, statusVars, ndirect>>
  /\ UNCHANGED <<attempts, dequeues, doneCalls>>

\* a consumer loop without the except clause: the exception of print_task ends it
PrintTaskGiveUpUncaught ==
  /\ cpc["consumer"] = "await"
  /\ tpc["consumer"] = "raise"
  /\ attempt["consumer"] = MaxAttempts - 1
  /\ results' = [results EXCEPT ![cur] = Append(@, "fail")]
  /\ outcome' = [outcome EXCEPT ![cur] = "dropped"]
  /\ cpc' = [cpc EXCEPT !["consumer"] = "dead"]
  /\ unfinished' = unfinished - 1
  /\ doneCalls' = [doneCalls EXCEPT ![cur] = @ + 1]
  /\ tasks' = [tasks EXCEPT ![cur] = Discarded]
  /\ cur' = 0
  /\ firstFail' = "none"
  /\ EndJob("consumer")
  /\ UNCHANGED <<cfgVars, fmtVars, botVars, callVars, queue, blocked, files, attempt, mode, statusVars, ndirect>>
  /\ UNCHANGED <<attempts, dequeues>>

\* a consumer loop that calls task_done in the try body only, not in a finally clause
PrintTaskGiveUpNoDone ==
  /\ cpc["consumer"] = "await"
  /\ tpc["consumer"] = "raise"
  /\ attempt["consumer"] = MaxAttempts - 1
  /\ results' = [results EXCEPT ![cur] = Append(@, "fail")]
  /\ outcome' = [outcome EXCEPT ![cur] = "dropped"]
  /\ cpc' = [cpc EXCEPT !["consumer"] = "get"]
  /\ tasks' = [tasks EXCEPT ![cur] = Discarded]
  /\ cur' = 0
  /\ firstFail' = "none"
  /\ EndJob("consumer")
  /\ UNCHANGED <<cfgVars, fmtVars, botVars, callVars, queue, blocked, unfinished, files, attempt, mode, statusVars, ndirect>>
  /\ UNCHANGED <<attempts, dequeues, doneCalls>>

\* the attempt raised and attempt == 2: print_task re-raises, _process_queue
\* logs the error, the finally clause calls task_done, the loop goes on
PrintTaskGiveUp ==
  /\ cpc["consumer"] = "await"
  /\ tpc["consumer"] = "raise"
  /\ attempt["consumer"] = MaxAttempts - 1
  /\ results' = [results EXCEPT ![cur] = Append(@, "fail")]
  /\ outcome' = [outcome EXCEPT ![cur] = "dropped"]
  /\ TaskDone(cur, unfinished)
  /\ tasks' = [tasks EXCEPT ![cur] = Discarded]
  /\ cur' = 0
  /\ firstFail' = "none"
  /\ EndJob("consumer")
  /\ UNCHANGED <<cfgVars, fmtVars, botVars, callVars, queue, blocked, files, attempt, mode, statusVars, ndirect>>
  /\ UNCHANGED <<attempts, dequeues>>

\* ----------------------------------------------------------------------
\* The blocking render job (_do_print_task), one device call per step
\* ----------------------------------------------------------------------
Task == tasks[cur]

\* what a step of the consumer's job leaves alone besides the job and the device
JobFrame ==
  /\ UNCHANGED <<mock, headerOn, fmtVars, botVars, callVars, queueVars, coVars, statusVars, ndirect, histVars>>

\* _print_header: self.printer.set(font="b"), any exception swallowed
PrintHeaderFont ==
  /\ tpc["consumer"] = "hdr_font"
  /\ \E r \in Outcomes("consumer", {"ok", "err"}) : Emit("consumer", "set", "font=b", r)
  /\ Goto("consumer", "hdr_line1")
  /\ JobFrame /\ UNCHANGED <<imageCfg, files, segi, mode>>

HeaderLine(p) ==
  CASE p = "hdr_line1" -> "line1"
    [] p = "hdr_rule" -> "rule"
    [] p = "hdr_blank" -> "blank"

HeaderNext(p) ==
  CASE p = "hdr_line1" -> "hdr_rule"
    [] p = "hdr_rule" -> "hdr_blank"
    [] p = "hdr_blank" -> "hdr_reset"

\* a header whose line writes are guarded like its font switch: a failed line
\* is skipped and the next one is written
PrintHeaderLineGuarded ==
  /\ tpc["consumer"] \in {"hdr_line1", "hdr_rule", "hdr_blank"}
  /\ \E r \in Outcomes("consumer", {"ok", "err"}) :
       /\ Emit("consumer", "textln", HeaderLine(tpc["consumer"]), r)
       /\ Goto("consumer", HeaderNext(tpc["consumer"]))
  /\ JobFrame /\ UNCHANGED <<imageCfg, files, segi, mode>>

\* _print_header: textln(line1), textln("-" * width), textln(""); an exception propagates
PrintHeaderLine ==
  /\ tpc["consumer"] \in {"hdr_line1", "hdr_rule", "hdr_blank"}
  /\ \E r \in Outcomes("consumer", {"ok", "err"}) :
       /\ Emit("consumer", "textln", HeaderLine(tpc["consumer"]), r)
       /\ Goto("consumer", IF r = "ok" THEN HeaderNext(tpc["consumer"]) ELSE "raise")
  /\ JobFrame /\ UNCHANGED <<imageCfg, files, segi, mode>>

\* _print_header: self._reset_style() (exception swallowed), then the payload dispatch
PrintHeaderReset ==
  /\ tpc["consumer"] = "hdr_reset"
  /\ \E r \in Outcomes("consumer", {"ok", "err"}) : Emit("consumer", "set", "baseline", r)
  /\ Goto("consumer", BodyPc(Task))
  /\ segi' = [segi EXCEPT !["consumer"] = BodySeg(Task)]
  /\ JobFrame /\ UNCHANGED <<imageCfg, files, mode>>

\* isinstance(content, str): self.printer.textln(content)
PrintPlainText ==
  /\ tpc["consumer"] = "text"
  /\ \E r \in Outcomes("consumer", {"ok", "err"}) :
       /\ Emit("consumer", "textln", "content", r)
       /\ Goto("consumer", IF r = "ok" THEN "cut1" ELSE "raise")
  /\ JobFrame /\ UNCHANGED <<imageCfg, files, segi, mode>>

\* _apply_segment_style: printer.set(**set_kwargs) when the style has keys, exception swallowed
ApplySegmentStyle ==
  /\ tpc["consumer"] = "seg_apply"
  /\ \E r \in Outcomes("consumer", {"ok", "err"}) : Emit("consumer", "set", "style", r)
  /\ Goto("consumer", "seg_text")
  /\ JobFrame /\ UNCHANGED <<imageCfg, files, segi, mode>>

\* self.printer.text(seg.text)
PrintSegmentText ==
  /\ tpc["consumer"] = "seg_text"
  /\ \E r \in Outcomes("consumer", {"ok", "err"}) :
       /\ Emit("consumer", "text", "segment", r)
       /\ Goto("consumer", IF r = "ok" THEN "seg_reset" ELSE "raise")
  /\ JobFrame /\ UNCHANGED <<imageCfg, files, segi, mode>>

\* a segment loop that resets the style only after a segment that set one
ResetSegmentStyleStyledOnly ==
  /\ tpc["consumer"] = "seg_reset"
  /\ IF Task.payload.job[segi["consumer"]].style = {}
       THEN UNCHANGED log
       ELSE \E r \in Outcomes("consumer", {"ok", "err"}) : Emit("consumer", "set", "baseline", r)
  /\ Goto("consumer", SegPc(Task.payload.job, segi["consumer"] + 1))
  /\ segi' = [segi EXCEPT !["consumer"] = NextSeg(Task.payload.job, @ + 1)]
  /\ JobFrame /\ UNCHANGED <<imageCfg, files, mode>>

\* self._reset_style() after the segment, then the next non-empty segment or the cut
ResetSegmentStyle ==
  /\ tpc["consumer"] = "seg_reset"
  /\ \E r \in Outcomes("consumer", {"ok", "err"}) : Emit("consumer", "set", "baseline", r)
  /\ Goto("consumer", SegPc(Task.payload.job, segi["consumer"] + 1))
  /\ segi' = [segi EXCEPT !["consumer"] = NextSeg(Task.payload.job, @ + 1)]
  /\ JobFrame /\ UNCHANGED <<imageCfg, files, mode>>

\* device mode after a raster emission that ended with r: a completed emission
\* leaves the device in graphics mode, a failed one may or may not have got there
RasterModes(r) == IF r = "ok" THEN {"graphics"} ELSE {mode, "graphics"}

\* printer.qr(data, native=False, size=size, image_arguments=...)
PrintQrCode ==
  /\ tpc["consumer"] = "qr"
  /\ \E r \in Outcomes("consumer", {"ok", "type", "err"}) :
       /\ Emit("consumer", "qr", "native=False", r)
       /\ Goto("consumer", CASE r = "ok" -> "reinit_init"
                             [] r = "type" -> "qr_fallback"
                             [] r = "err" -> "raise")
       /\ IF r = "type" THEN UNCHANGED mode ELSE mode' \in RasterModes(r)
  /\ JobFrame /\ UNCHANGED <<imageCfg, files, segi>>

\* except TypeError: self.printer.qr(data, size=size) -- native is not passed
PrintQrFallback ==
  /\ tpc["consumer"] = "qr_fallback"
  /\ \E r \in Outcomes("consumer", {"ok", "err"}) :
       /\ Emit("consumer", "qr", "native unset", r)
       /\ Goto("consumer", IF r = "ok" THEN "reinit_init" ELSE "raise")
       /\ mode' \in RasterModes(r)
  /\ JobFrame /\ UNCHANGED <<imageCfg, files, segi>>

\* where _do_print_task goes on after _reinitialize_printer returned
AfterReinit(t) == IF t.payload.kind = "qr" THEN "cut1" ELSE "img_unlink_ok"

\* _reinitialize_printer: _raw(ESC @); any exception ends the method with a warning
ReinitializeInit ==
  /\ tpc["consumer"] = "reinit_init"
  /\ IF mock
       THEN /\ Goto("consumer", AfterReinit(Task))
            /\ UNCHANGED <<log, mode>>
       ELSE \E r \in Outcomes("consumer", {"ok", "err"}) :
              /\ Emit("consumer", "raw", "init", r)
              /\ Goto("consumer", IF r = "ok" THEN "reinit_cp" ELSE AfterReinit(Task))
              /\ mode' \in (IF r = "ok" THEN {"text"} ELSE {mode, "text"})
  /\ JobFrame /\ UNCHANGED <<imageCfg, files, segi>>

\* _reinitialize_printer: _raw(ESC t CODEPAGE_ID)
ReinitializeCodepage ==
  /\ tpc["consumer"] = "reinit_cp"
  /\ \E r \in Outcomes("consumer", {"ok", "err"}) :
       /\ Emit("consumer", "raw", "codepage", r)
       /\ Goto("consumer", IF r = "ok" THEN "reinit_reset" ELSE AfterReinit(Task))
  /\ JobFrame /\ UNCHANGED <<imageCfg, files, segi, mode>>

\* _reinitialize_printer: self._reset_style()
ReinitializeStyle ==
  /\ tpc["consumer"] = "reinit_reset"
  /\ \E r \in Outcomes("consumer", {"ok", "err"}) : Emit("consumer", "set", "baseline", r)
  /\ Goto("consumer", AfterReinit(Task))
  /\ JobFrame /\ UNCHANGED <<imageCfg, files, segi, mode>>

\* ----------------------------------------------------------------------
\* _do_print_image
\* ----------------------------------------------------------------------
\* the in-memory steps between Image.open and the density set, for a w x h picture:
\* rotate iff landscape, resize iff the width is not the print width
Rotated(w, h) == w > h

WidthAfterRotate(w, h) == IF Rotated(w, h) THEN h ELSE w

\* steps that resize the picture before they turn it
PilStepsResizeFirst(w, h) ==
  << Cmd("pil", "decode", "ok") >>
  \o (IF WidthAfterRotate(w, h) # ImagePrintWidth THEN << Cmd("pil", "resize", "ok") >> ELSE <<>>)
  \o (IF Rotated(w, h) THEN << Cmd("pil", "rotate", "ok") >> ELSE <<>>)

PilSteps(w, h) ==
  << Cmd("pil", "decode", "ok") >>
  \o (IF Rotated(w, h) THEN << Cmd("pil", "rotate", "ok") >> ELSE <<>>)
  \o (IF WidthAfterRotate(w, h) # ImagePrintWidth THEN << Cmd("pil", "resize", "ok") >> ELSE <<>>)

\* Image.open(path).convert("RGB") (FileNotFoundError, "missing", when the temp file
\* is gone; "err" when Pillow cannot decode it), rotate, resize, then config.IMAGE_ENHANCE_ENABLED
\* is read (AttributeError when config does not define it: src/config.py sets no
\* IMAGE_* value, an extended config module sets it on or off) and _enhance_image
\* runs; the setting is fixed from its first read on
PrepareImage ==
  /\ tpc["consumer"] = "img_open"
  /\ \E r \in (IF cur \in files THEN Outcomes("consumer", {"ok", "err"}) ELSE {"missing"}) :
       IF r # "ok"
         THEN /\ Emit("consumer", "pil", "decode", r)
              /\ Goto("consumer", "img_unlink_exc")
              /\ UNCHANGED imageCfg
         ELSE /\ imageCfg' \in (IF imageCfg = "unread" THEN {"undefined", "on", "off"}
                                                       ELSE {imageCfg})
              /\ log' = [log EXCEPT !["consumer"] =
                           @ \o PilSteps(Task.payload.w, Task.payload.h)
                             \o (IF imageCfg' = "on" THEN << Cmd("pil", "enhance", "ok") >>
                                                     ELSE <<>>)]
              /\ Goto("consumer", IF imageCfg' = "undefined" THEN "img_unlink_exc"
                                                             ELSE "img_density")
  /\ JobFrame /\ UNCHANGED <<files, segi, mode>>

\* self.printer.set(density=config.IMAGE_DENSITY): not guarded, an exception propagates
SetImageDensity ==
  /\ tpc["consumer"] = "img_density"
  /\ \E r \in Outcomes("consumer", {"ok", "err"}) :
       /\ Emit("consumer", "set", "density", r)
       /\ Goto("consumer", IF r = "ok" THEN "img_raster" ELSE "img_unlink_exc")
  /\ JobFrame /\ UNCHANGED <<imageCfg, files, segi, mode>>

\* self.printer.image(img, ...), then _reinitialize_printer
PrintImageRaster ==
  /\ tpc["consumer"] = "img_raster"
  /\ \E r \in Outcomes("consumer", {"ok", "err"}) :
       /\ Emit("consumer", "image", "", r)
       /\ Goto("consumer", IF r = "ok" THEN "reinit_init" ELSE "img_unlink_exc")
       /\ mode' \in RasterModes(r)
  /\ JobFrame /\ UNCHANGED <<imageCfg, files, segi>>

\* finally: Path(image_path).unlink(missing_ok=True); a failure is logged only,
\* then the pending exception (if any) propagates
UnlinkImage ==
  /\ tpc["consumer"] \in {"img_unlink_ok", "img_unlink_exc"}
  /\ \E r \in Outcomes("consumer", {"ok", "err"}) :
       /\ Emit("consumer", "unlink", "", r)
       /\ files' = IF r = "ok" THEN files \ {cur} ELSE files
  /\ Goto("consumer", IF tpc["consumer"] = "img_unlink_ok" THEN "cut1" ELSE "raise")
  /\ JobFrame /\ UNCHANGED <<imageCfg, segi, mode>>

\* ----------------------------------------------------------------------
\* _cut: the three call forms, for the job of either flow
\* ----------------------------------------------------------------------
FlowFrame(f) ==
  /\ UNCHANGED <<cfgVars, fmtVars, botVars, callVars, queueVars, files, coVars, segi, mode, statusVars, ndirect, histVars>>

\* a first form whose every exception leads to the second form
CutPartialAnyError(f) ==
  /\ tpc[f] = "cut1"
  /\ \E r \in Outcomes(f, {"ok", "type", "err"}) :
       /\ Emit(f, "cut", "partial=True", r)
       /\ Goto(f, IF r = "ok" THEN "ret" ELSE "cut2")
  /\ FlowFrame(f)

\* self.printer.cut(partial=True)
CutPartial(f) ==
  /\ tpc[f] = "cut1"
  /\ \E r \in Outcomes(f, {"ok", "type", "err"}) :
       /\ Emit(f, "cut", "partial=True", r)
       /\ Goto(f, CASE r = "ok" -> "ret" [] r = "type" -> "cut2" [] r = "err" -> "raise")
  /\ FlowFrame(f)

\* self.printer.cut(mode="PART")
CutMode(f) ==
  /\ tpc[f] = "cut2"
  /\ \E r \in Outcomes(f, {"ok", "type", "err"}) :
       /\ Emit(f, "cut", "mode=PART", r)
       /\ Goto(f, CASE r = "ok" -> "ret" [] r = "type" -> "cut3" [] r = "err" -> "raise")
  /\ FlowFrame(f)

\* self.printer.cut(): whatever it raises propagates
CutPlain(f) ==
  /\ tpc[f] = "cut3"
  /\ \E r \in Outcomes(f, {"ok", "type", "err"}) :
       /\ Emit(f, "cut", "", r)
       /\ Goto(f, IF r = "ok" THEN "ret" ELSE "raise")
  /\ FlowFrame(f)

\* ----------------------------------------------------------------------
\* status() and _query_status_sync
\* ----------------------------------------------------------------------
StatusFrame ==
  /\ UNCHANGED <<cfgVars, fmtVars, botVars, callVars, queueVars, files, coVars, jobVars, mode, ndirect, histVars>>

\* bool(x) of what is_online() returned
ToBool(a) == a = "True"

\* int(x) of what paper_status() returned
ToInt(a) == CASE a = "0" -> 0 [] a = "1" -> 1 [] a = "2" -> 2

\* status_handler awaits printer.status(): mock answers at once, otherwise
\* _query_status_sync is handed to the executor
StatusCall ==
  /\ spc = "idle"
  /\ IF mock
       THEN /\ spc' = "done"
            /\ sres' = StatusResult(TRUE, Paper(2))
       ELSE /\ spc' = "online"
            /\ sres' = NoResult
  /\ probed' = NoProbe
  /\ StatusFrame

\* a first probe that waits until no job of the consumer is executing
QueryOnlineAfterJob ==
  /\ spc = "online"
  /\ tpc["consumer"] \in {"none", "ret", "raise"}
  /\ \E a \in {"True", "False", "raised"} :
       /\ probed' = [probed EXCEPT !.online = a]
       /\ IF a = "raised"
            THEN /\ spc' = "done"
                 /\ sres' = StatusResult(FALSE, PaperNone)
            ELSE /\ spc' = "paper"
                 /\ sres' = StatusResult(ToBool(a), PaperNone)
  /\ StatusFrame

\* online = bool(self.printer.is_online()); an exception leaves the job and
\* status() answers {"online": False, "paper": None}
QueryOnline ==
  /\ spc = "online"
  /\ \E a \in {"True", "False", "raised"} :
       /\ probed' = [probed EXCEPT !.online = a]
       /\ IF a = "raised"
            THEN /\ spc' = "done"
                 /\ sres' = StatusResult(FALSE, PaperNone)
            ELSE /\ spc' = "paper"
                 /\ sres' = StatusResult(ToBool(a), PaperNone)
  /\ StatusFrame

\* a paper probe without its own try: the exception reaches the except clause
\* of status(), which answers {"online": False, "paper": None}
QueryPaperUnguarded ==
  /\ spc = "paper"
  /\ \E a \in {"0", "1", "2", "raised"} :
       /\ probed' = [probed EXCEPT !.paper = a]
       /\ sres' = IF a = "raised" THEN StatusResult(FALSE, PaperNone)
                                   ELSE [sres EXCEPT !.paper = Paper(ToInt(a))]
  /\ spc' = "done"
  /\ StatusFrame

\* paper = int(self.printer.paper_status()), None when it raises
QueryPaper ==
  /\ spc = "paper"
  /\ \E a \in {"0", "1", "2", "raised"} :
       /\ probed' = [probed EXCEPT !.paper = a]
       /\ sres' = [sres EXCEPT !.paper = IF a = "raised" THEN PaperNone ELSE Paper(ToInt(a))]
  /\ spc' = "done"
  /\ StatusFrame

\* status() has returned and status_handler has replied
StatusReply ==
  /\ spc = "done"
  /\ spc' = "idle"
  /\ sres' = NoResult
  /\ probed' = NoProbe
  /\ StatusFrame

\* ----------------------------------------------------------------------
\* print_qr and _do_print_qr: the direct QR path
\* ----------------------------------------------------------------------
DirectFrame ==
  /\ UNCHANGED <<cfgVars, fmtVars, botVars, callVars, queueVars, files, cur, firstFail, segi, mode, statusVars, histVars>>

\* print_qr(data): mock logs and returns, otherwise attempt 0 goes to the executor
PrintQrCall ==
  /\ cpc["direct"] = "idle"
  /\ ndirect < MaxDirect
  /\ ndirect' = ndirect + 1
  /\ IF mock
       THEN UNCHANGED <<cpc, attempt, tpc, log>>
       ELSE /\ cpc' = [cpc EXCEPT !["direct"] = "await"]
            /\ attempt' = [attempt EXCEPT !["direct"] = 0]
            /\ tpc' = [tpc EXCEPT !["direct"] = "dqr"]
            /\ log' = [log EXCEPT !["direct"] = <<>>]
  /\ DirectFrame

\* _do_print_qr: printer.qr(data, native=False, size=size, image_arguments=...)
DoPrintQr ==
  /\ tpc["direct"] = "dqr"
  /\ \E r \in Outcomes("direct", {"ok", "type", "err"}) :
       /\ Emit("direct", "qr", "native=False", r)
       /\ Goto("direct", CASE r = "ok" -> "cut1"
                           [] r = "type" -> "dqr_fallback"
                           [] r = "err" -> "raise")
       /\ IF r = "type" THEN UNCHANGED mode ELSE mode' \in RasterModes(r)
  /\ UNCHANGED <<cfgVars, fmtVars, botVars, callVars, queueVars, files, coVars, segi, statusVars, ndirect, histVars>>

\* _do_print_qr: except TypeError: self.printer.qr(data, size=size), then self._cut()
DoPrintQrFallback ==
  /\ tpc["direct"] = "dqr_fallback"
  /\ \E r \in Outcomes("direct", {"ok", "err"}) :
       /\ Emit("direct", "qr", "native unset", r)
       /\ Goto("direct", IF r = "ok" THEN "cut1" ELSE "raise")
       /\ mode' \in RasterModes(r)
  /\ UNCHANGED <<cfgVars, fmtVars, botVars, callVars, queueVars, files, coVars, segi, statusVars, ndirect, histVars>>

\* the attempt returned: print_qr logs and returns
PrintQrReturn ==
  /\ cpc["direct"] = "await"
  /\ tpc["direct"] = "ret"
  /\ cpc' = [cpc EXCEPT !["direct"] = "idle"]
  /\ tpc' = [tpc EXCEPT !["direct"] = "none"]
  /\ log' = [log EXCEPT !["direct"] = <<>>]
  /\ UNCHANGED <<attempt, ndirect>>
  /\ DirectFrame

\* the attempt raised and attempt # 2: await asyncio.sleep(0.5)
PrintQrRetry ==
  /\ cpc["direct"] = "await"
  /\ tpc["direct"] = "raise"
  /\ attempt["direct"] # MaxAttempts - 1
  /\ cpc' = [cpc EXCEPT !["direct"] = "sleep"]
  /\ tpc' = [tpc EXCEPT !["direct"] = "none"]
  /\ log' = [log EXCEPT !["direct"] = <<>>]
  /\ UNCHANGED <<attempt, ndirect>>
  /\ DirectFrame

\* the sleep is over: the next attempt goes to the executor
PrintQrWake ==
  /\ cpc["direct"] = "sleep"
  /\ cpc' = [cpc EXCEPT !["direct"] = "await"]
  /\ attempt' = [attempt EXCEPT !["direct"] = @ + 1]
  /\ tpc' = [tpc EXCEPT !["direct"] = "dqr"]
  /\ log' = [log EXCEPT !["direct"] = <<>>]
  /\ UNCHANGED ndirect
  /\ DirectFrame

\* the attempt raised and attempt == 2: print_qr raises to its caller
PrintQrRaise ==
  /\ cpc["direct"] = "await"
  /\ tpc["direct"] = "raise"
  /\ attempt["direct"] = MaxAttempts - 1
  /\ cpc' = [cpc EXCEPT !["direct"] = "idle"]
  /\ tpc' = [tpc EXCEPT !["direct"] = "none"]
  /\ log' = [log EXCEPT !["direct"] = <<>>]
  /\ UNCHANGED <<attempt, ndirect>>
  /\ DirectFrame

\* ----------------------------------------------------------------------
\* build_print_job (src/formatter.py): Telegram entities to styled segments
\* ----------------------------------------------------------------------
\* the characters of the texts: one of the Basic Multilingual Plane and one
\* beyond it, which UTF-16 encodes as a surrogate pair
Astral == {"U+1F600"}

Characters == {"a"} \cup Astral

\* the texts of length 0..MaxText
Texts == UNION { [1..n -> Characters] : n \in 0..MaxText }

\* entity types: four that map to a style, "italic", and one formatter.py does not know
Kinds == {"bold", "code", "italic", "spoiler"}

\* (offset, length) of the entities, in UTF-16 code units: starting before the
\* text, at its start, inside it, and reaching beyond its end
SpanRanges == { <<-1, 2>>, <<0, 2>>, <<1, 2>>, <<1, 9>> }

\* a MessageEntity: offset and length in UTF-16 code units, and its type
MessageEntity(o, l, t) == [offset |-> o, length |-> l, type |-> t, malformed |-> FALSE]

\* an entity whose attributes cannot be read (reading them raises)
Malformed == [offset |-> 0, length |-> 0, type |-> "bold", malformed |-> TRUE]

Entities ==
  { MessageEntity(r[1], r[2], t) : r \in SpanRanges, t \in Kinds } \cup {Malformed}

\* the entity lists of length 0..MaxSpans
EntityLists == UNION { [1..n -> Entities] : n \in 0..MaxSpans }

Min(a, b) == IF a <= b THEN a ELSE b

Max(a, b) == IF a >= b THEN a ELSE b

\* len(ch.encode("utf-16-le")) // 2
Utf16Units(ch) == IF ch \in Astral THEN 2 ELSE 1

\* cu_index after the first n characters of text
RECURSIVE CuIndex(_, _)
CuIndex(text, n) == IF n = 0 THEN 0 ELSE CuIndex(text, n - 1) + Utf16Units(text[n])

\* char_to_cu[i] for the Python index i in 0..len(text)-1
CharToCu(text, i) == CuIndex(text, i)

\* cu_to_char_index(target): the first character whose starting code unit is
\* >= target, len(text) when there is none
CuToCharIndex(text, target) ==
  LET hits == { i \in 0..(Len(text) - 1) : CharToCu(text, i) >= target } IN
  IF hits = {} THEN Len(text) ELSE CHOOSE i \in hits : \A j \in hits : i <= j

\* a conversion that takes offset and length for codepoint indices
Utf16RangeToPySliceUntranslated(text, offset, length) ==
  IF text = <<>> THEN <<0, 0>>
  ELSE LET start_idx == Max(0, Min(offset, Len(text)))
       IN << start_idx, Max(start_idx, Min(offset + length, Len(text))) >>

\* _utf16_range_to_py_slice(text, offset, length) -> (start_idx, end_idx)
Utf16RangeToPySlice(text, offset, length) ==
  IF text = <<>> THEN <<0, 0>>
  ELSE LET total_cu == CuIndex(text, Len(text))
           start_cu == Max(0, Min(offset, total_cu))
           end_cu == Max(start_cu, Min(offset + length, total_cu))
       IN << CuToCharIndex(text, start_cu), CuToCharIndex(text, end_cu) >>

\* an extraction that gives up at the first entity that raises
RECURSIVE ExtractEntitiesAbort(_, _)
ExtractEntitiesAbort(text, entities) ==
  IF entities = <<>> \/ Head(entities).malformed THEN <<>>
  ELSE LET ent == Head(entities)
           slice == Utf16RangeToPySlice(text, ent.offset, ent.length)
       IN (IF slice[1] < slice[2]
             THEN << <<slice[1], slice[2], ent.type>> >>
             ELSE <<>>)
          \o ExtractEntitiesAbort(text, Tail(entities))

\* _extract_entities: (start, end, type) of every entity with start < end; an
\* entity that raises is skipped
RECURSIVE ExtractEntities(_, _)
ExtractEntities(text, entities) ==
  IF entities = <<>> THEN <<>>
  ELSE LET ent == Head(entities)
           slice == Utf16RangeToPySlice(text, ent.offset, ent.length)
       IN (IF ~ent.malformed /\ slice[1] < slice[2]
             THEN << <<slice[1], slice[2], ent.type>> >>
             ELSE <<>>)
          \o ExtractEntities(text, Tail(entities))

\* boundaries that start from {0} only: the end of the text is not added
BoundariesNoEnd(text, norm_entities) ==
  {0}
    \cup { norm_entities[k][1] : k \in 1..Len(norm_entities) }
    \cup { norm_entities[k][2] : k \in 1..Len(norm_entities) }

\* boundaries = {0, len(text)} plus the start and the end of every entity
Boundaries(text, norm_entities) ==
  {0, Len(text)}
    \cup { norm_entities[k][1] : k \in 1..Len(norm_entities) }
    \cup { norm_entities[k][2] : k \in 1..Len(norm_entities) }

\* sorted(boundaries)
RECURSIVE Sorted(_)
Sorted(S) ==
  IF S = {} THEN <<>>
  ELSE LET m == CHOOSE x \in S : \A y \in S : x <= y IN << m >> \o Sorted(S \ {m})

\* text[a:b] for 0 <= a
PySlice(text, a, b) == SubSeq(text, a + 1, Min(b, Len(text)))

\* a condition that only looks at where the entity starts
CoversStart(start, end_, seg_start, seg_end) == start <= seg_start

\* a condition that only looks at where the entity ends
CoversEnd(start, end_, seg_start, seg_end) == end_ >= seg_end

\* the condition of the active_types comprehension
Covers(start, end_, seg_start, seg_end) == start <= seg_start /\ end_ >= seg_end

\* active_types: the types of the entities covering the whole subrange
ActiveTypes(norm_entities, seg_start, seg_end) ==
  { norm_entities[k][3] :
      k \in { j \in 1..Len(norm_entities) :
                Covers(norm_entities[j][1], norm_entities[j][2], seg_start, seg_end) } }

\* a style dict in which italic sets a key of its own
SegmentStyleItalic(active_types) ==
  (IF "bold" \in active_types THEN { <<"bold", "True">> } ELSE {})
    \cup (IF "underline" \in active_types THEN { <<"underline", "1">> } ELSE {})
    \cup (IF "strikethrough" \in active_types THEN { <<"invert", "True">> } ELSE {})
    \cup (IF "code" \in active_types \/ "pre" \in active_types
            THEN { <<"font", "b">> } ELSE {})
    \cup (IF "blockquote" \in active_types
            THEN { <<"double_height", "True">>, <<"double_width", "True">> } ELSE {})
    \cup (IF "italic" \in active_types THEN { <<"underline", "2">> } ELSE {})

\* a style dict whose tests ignore the case of the type strings
SegmentStyleAnyCase(active_types) ==
  (IF {"bold", "Bold"} \cap active_types # {} THEN { <<"bold", "True">> } ELSE {})
    \cup (IF "underline" \in active_types THEN { <<"underline", "1">> } ELSE {})
    \cup (IF "strikethrough" \in active_types THEN { <<"invert", "True">> } ELSE {})
    \cup (IF {"code", "CODE", "pre"} \cap active_types # {}
            THEN { <<"font", "b">> } ELSE {})
    \cup (IF "blockquote" \in active_types
            THEN { <<"double_height", "True">>, <<"double_width", "True">> } ELSE {})

\* the style dict built from active_types, as its set of (key, value) items
SegmentStyle(active_types) ==
  (IF "bold" \in active_types THEN { <<"bold", "True">> } ELSE {})
    \cup (IF "underline" \in active_types THEN { <<"underline", "1">> } ELSE {})
    \cup (IF "strikethrough" \in active_types THEN { <<"invert", "True">> } ELSE {})
    \cup (IF "code" \in active_types \/ "pre" \in active_types
            THEN { <<"font", "b">> } ELSE {})
    \cup (IF "blockquote" \in active_types
            THEN { <<"double_height", "True">>, <<"double_width", "True">> } ELSE {})

\* for i in range(len(ordered) - 1): the segments from the i-th boundary pair on
RECURSIVE Segments(_, _, _, _)
Segments(text, norm_entities, ordered, i) ==
  IF i >= Len(ordered) THEN <<>>
  ELSE LET seg_start == ordered[i]
           seg_end == ordered[i + 1]
           seg_text == PySlice(text, seg_start, seg_end)
       IN (IF seg_start >= seg_end \/ seg_text = <<>>
             THEN <<>>
             ELSE << Segment(seg_text, SegmentStyle(ActiveTypes(norm_entities, seg_start, seg_end))) >>)
          \o Segments(text, norm_entities, ordered, i + 1)

\* a job of one unstyled segment per character
PlainJobPerCharacter(text) == [i \in 1..Len(text) |-> Segment(<< text[i] >>, {})]

\* if not norm_entities: return [Segment(text=text, style={})]
PlainJob(text) == << Segment(text, {}) >>

\* build_print_job(text, entities) -> PrintJob
BuildPrintJob(text, entities) ==
  IF text = <<>> THEN <<>>
  ELSE LET norm_entities == ExtractEntities(text, entities) IN
       IF norm_entities = <<>> THEN PlainJob(text)
       ELSE Segments(text, norm_entities, Sorted(Boundaries(text, norm_entities)), 1)

\* a call of build_print_job on the message at hand
build_print_job ==
  /\ ~built
  /\ normEntities' = IF msgText = <<>> THEN <<>> ELSE ExtractEntities(msgText, msgEntities)
  /\ printJob' = BuildPrintJob(msgText, msgEntities)
  /\ built' = TRUE
  /\ UNCHANGED <<msgText, msgEntities, message, queueItem>>
  /\ UNCHANGED <<cfgVars, botVars, callVars, queueVars, files, coVars, jobVars, mode, statusVars, ndirect, histVars>>

\* ----------------------------------------------------------------------
\* message_to_queue_item (src/formatter.py)
\* ----------------------------------------------------------------------
\* bool(x): None, "" and [] are false
Truthy(x) == x.type = "MagicMock" \/ x.value # <<>>

\* a or b
Or(a, b) == IF Truthy(a) THEN a ELSE b

\* isinstance(x, (list, tuple))
IsListOrTuple(x) == x.type \in {"list", "tuple"}

\* the characters str.strip() removes
Whitespace == {" ", "\n"}

\* str.lstrip()
RECURSIVE LStrip(_)
LStrip(t) == IF t # <<>> /\ Head(t) \in Whitespace THEN LStrip(Tail(t)) ELSE t

\* str.rstrip()
RECURSIVE RStrip(_)
RStrip(t) ==
  IF t # <<>> /\ t[Len(t)] \in Whitespace THEN RStrip(SubSeq(t, 1, Len(t) - 1)) ELSE t

\* a strip that removes leading whitespace only
LStripOnly(t) == LStrip(t)

\* str.strip()
Strip(t) == RStrip(LStrip(t))

\* text = (message.text or message.caption or "") or ""
MessageText(m) == Or(Or(Or(m.text, m.caption), PyStr(<<>>)), PyStr(<<>>))

\* raw_entities: message.entities, else message.caption_entities, else []
RawEntities(m) ==
  IF IsListOrTuple(m.entities) THEN m.entities
  ELSE IF IsListOrTuple(m.caption_entities) THEN m.caption_entities
  ELSE PyList(<<>>)

\* the value message_to_queue_item(m) returns
MessageToQueueItem(m) ==
  IF ~Truthy(RawEntities(m)) THEN PyStr(Strip(MessageText(m).value))
  ELSE PyList(BuildPrintJob(MessageText(m).value, RawEntities(m).value))

\* message_to_queue_item(message): the stripped text when there are no
\* entities, else the result of build_print_job(text, entities)
message_to_queue_item ==
  /\ queueItem = PyNone
  /\ ~built
  /\ LET text == MessageText(message)
         entities == RawEntities(message)
     IN IF ~Truthy(entities)
          THEN /\ queueItem' = PyStr(Strip(text.value))
               /\ UNCHANGED <<msgText, msgEntities, normEntities, built, printJob>>
          ELSE /\ msgText' = text.value
               /\ msgEntities' = entities.value
               /\ normEntities' = IF text.value = <<>> THEN <<>>
                                   ELSE ExtractEntities(text.value, entities.value)
               /\ printJob' = BuildPrintJob(text.value, entities.value)
               /\ built' = TRUE
               /\ queueItem' = PyList(printJob')
  /\ UNCHANGED message
  /\ UNCHANGED <<cfgVars, botVars, callVars, queueVars, files, coVars, jobVars, mode, statusVars, ndirect, histVars>>


\* ----------------------------------------------------------------------
\* The handlers of src/bot.py with their messages and replies
\* ----------------------------------------------------------------------
SendTextToPrint == "Send text to print."

TooLongReply == "Too long!"

QueuedForPrinting == "Queued for printing!"

QrUsage == "Usage: /qr your text to encode"

QrTooLong == "QR content too long (max 500 characters)."

QrQueued == "QR code queued for printing!"

\* a text of n characters ch
Repeat(ch, n) == [i \in 1..n |-> ch]

\* a length test that turns away a text of exactly TextLimit characters
TooLongFrom(text) == Len(text) >= TextLimit

\* len(text) > 1000
TooLong(text) == Len(text) > TextLimit

\* tokens = message_text.strip().split(maxsplit=1): the first token
RECURSIVE FirstToken(_)
FirstToken(t) ==
  IF t = <<>> \/ Head(t) \in Whitespace THEN <<>> ELSE << Head(t) >> \o FirstToken(Tail(t))

\* tokens[1:]: what follows the first token and the whitespace after it (no
\* element when nothing follows)
RestTokens(t) ==
  LET rest == LStrip(SubSeq(t, Len(FirstToken(t)) + 1, Len(t))) IN
  IF rest = <<>> THEN <<>> ELSE << rest >>

\* remove_command_from_message(message_text)
RemoveCommandFromMessage(message_text) ==
  IF message_text = <<>> THEN <<>>
  ELSE LET stripped == Strip(message_text)
           tokens == IF stripped = <<>> THEN <<>>
                     ELSE << FirstToken(stripped) >> \o RestTokens(stripped)
       IN IF tokens # <<>> /\ Head(tokens[1]) = "/"
            THEN (IF Len(tokens) > 1 THEN tokens[2] ELSE <<>>)
            ELSE stripped

\* handle_message(m): a blank or over-long text is answered only; otherwise
\* the queue item becomes a TextPayload, is put on the queue and confirmed
HandleMessage(m) ==
  LET text == Or(Or(m.text, m.caption), PyStr(<<>>)).value IN
  /\ message' = m
  /\ IF Strip(text) = <<>>
       THEN /\ replies' = << SendTextToPrint >>
            /\ UNCHANGED <<queueVars, outcome, queueItem>>
       ELSE IF TooLong(text)
         THEN /\ replies' = << TooLongReply >>
              /\ UNCHANGED <<queueVars, outcome, queueItem>>
         ELSE LET job == IF formatting THEN MessageToQueueItem(m) ELSE PyStr(Strip(text)) IN
              /\ queueItem' = job
              /\ Put(PrintTask(headerOn,
                               TextPayload(job.type = "str",
                                           IF job.type = "str" THEN <<>> ELSE job.value)))
              /\ replies' = << QueuedForPrinting >>
  /\ UNCHANGED <<msgText, msgEntities, normEntities, built, printJob>>
  /\ UNCHANGED <<formatting, clock, userTimestamps, event, calls, returned, answers>>
  /\ UNCHANGED <<cfgVars, files, coVars, jobVars, mode, statusVars, ndirect, callVars>>
  /\ UNCHANGED <<attempts, results, dequeues, doneCalls>>

\* qr_handler(m): no text after the command, or one too long, is answered
\* only; otherwise a QrPayload is put on the queue and confirmed
QrHandler(m) ==
  LET text == RemoveCommandFromMessage(Or(m.text, PyStr(<<>>)).value) IN
  /\ message' = m
  /\ IF text = <<>>
       THEN /\ replies' = << QrUsage >>
            /\ UNCHANGED <<queueVars, outcome>>
       ELSE IF Len(text) > QrLimit
         THEN /\ replies' = << QrTooLong >>
              /\ UNCHANGED <<queueVars, outcome>>
         ELSE /\ Put(PrintTask(headerOn, QrPayload))
              /\ replies' = << QrQueued >>
  /\ UNCHANGED <<msgText, msgEntities, normEntities, built, printJob, queueItem>>
  /\ UNCHANGED <<formatting, clock, userTimestamps, event, calls, returned, answers>>
  /\ UNCHANGED <<cfgVars, files, coVars, jobVars, mode, statusVars, ndirect, callVars>>
  /\ UNCHANGED <<attempts, results, dequeues, doneCalls>>

\* the messages routed to handle_message: without text, blank, short with
\* whitespace around it, and of TextLimit - 1 .. TextLimit + 1 characters;
\* the short ones also with a caption and with entities
TextMessages ==
  { Message(t, c, e, PyNone) :
      t \in { PyNone, PyStr(<<>>), PyStr(<< " ", "\n" >>), PyStr(<< " ", "a", " " >>) },
      c \in { PyNone, PyStr(<< "c", " " >>) },
      e \in { PyNone, PyList(<< MessageEntity(1, 1, "bold") >>) } }
  \cup { Message(PyStr(t), PyNone, PyNone, PyNone) :
           t \in { Repeat("x", TextLimit - 1) \o << " " >>,
                   Repeat("x", TextLimit),
                   << " " >> \o Repeat("x", TextLimit),
                   Repeat("x", TextLimit + 1) } }

\* the messages routed to qr_handler
QrMessages ==
  { Message(PyStr(<< "/", "q", "r" >> \o t), PyNone, PyNone, PyNone) :
      t \in { <<>>, << " ", " " >>, << " ", "a", " ", "b", " " >>,
              << " " >> \o Repeat("x", QrLimit),
              << " " >> \o Repeat("x", QrLimit + 1) } }

\* an update that is not a command reaches handle_message
TextUpdate == \E m \in TextMessages : HandleMessage(m)

\* a /qr command reaches qr_handler
QrUpdate == \E m \in QrMessages : QrHandler(m)

\* ----------------------------------------------------------------------
\* The middlewares of dp.message (src/bot.py)
\* ----------------------------------------------------------------------
\* what the handler behind the middlewares returns
HandlerResult == "handled"

AccessDenied == "Access denied"

RateLimitExceeded == "Print rate limit exceeded."

\* the updates of this model: without a sender, from two whitelisted users
\* and from a stranger; without text, with a text, with a command
Events ==
  { Event(u, t) :
      u \in {NoUser} \cup { User(id) : id \in UserIds },
      t \in { PyNone, PyStr(<< "H", "i" >>), PyStr(<< "/", "q", "r" >>) } }

\* event.text and event.text.startswith("/")
IsCommand(ev) == Truthy(ev.text) /\ Head(ev.text.value) = "/"

\* timestamps that are never dropped
KeptForever(timestamps, now) == timestamps

\* [t for t in timestamps if now - t < self.period]
Kept(timestamps, now) ==
  SelectSeq(timestamps, LAMBDA t : now - t < PrintRateLimitSeconds)

\* ThrottlingMiddleware.__call__ at time clock: the calls of the handler, the
\* value returned, the answers sent and the timestamps afterwards
ThrottlingMiddleware(ev) ==
  IF ~ev.from_user.known \/ IsCommand(ev)
    THEN [handler |-> 1, throttle |-> HandlerResult, answers |-> <<>>,
          stamps |-> userTimestamps]
    ELSE LET uid == ev.from_user.id
             timestamps == Kept(userTimestamps[uid], clock)
         IN IF Len(timestamps) >= RateLimit
              THEN [handler |-> 0, throttle |-> "None",
                    answers |-> << RateLimitExceeded >>,
                    stamps |-> [userTimestamps EXCEPT ![uid] = timestamps]]
              ELSE [handler |-> 1, throttle |-> HandlerResult, answers |-> <<>>,
                    stamps |-> [userTimestamps EXCEPT ![uid] = Append(timestamps, clock)]]

\* an auth middleware that answers a stranger and calls the handler all the same
AuthMiddlewareLenient(ev) ==
  LET t == ThrottlingMiddleware(ev) IN
  [throttle |-> 1, handler |-> t.handler, auth |-> t.throttle, thr |-> t.throttle,
   answers |-> (IF ev.from_user.known /\ ev.from_user.id \notin Whitelist
                  THEN << AccessDenied >> ELSE <<>>) \o t.answers,
   stamps |-> t.stamps]

\* AuthMiddleware.__call__ with the throttling middleware as its handler
AuthMiddleware(ev) ==
  IF ev.from_user.known /\ ev.from_user.id \notin Whitelist
    THEN [throttle |-> 0, handler |-> 0, auth |-> "None", thr |-> "unset",
          answers |-> << AccessDenied >>, stamps |-> userTimestamps]
    ELSE LET t == ThrottlingMiddleware(ev) IN
         [throttle |-> 1, handler |-> t.handler, auth |-> t.throttle, thr |-> t.throttle,
          answers |-> t.answers, stamps |-> t.stamps]

\* the dispatcher feeds one update to the middlewares
Dispatch ==
  /\ \E ev \in Events :
       LET a == AuthMiddleware(ev) IN
       /\ event' = ev
       /\ calls' = [throttle |-> a.throttle, handler |-> a.handler]
       /\ returned' = Returned(a.auth, a.thr)
       /\ answers' = a.answers
       /\ userTimestamps' = a.stamps
  /\ UNCHANGED <<formatting, clock, replies>>
  /\ UNCHANGED <<cfgVars, fmtVars, queueVars, files, coVars, jobVars, mode, statusVars, ndirect, histVars, callVars>>

\* a second passes
Tick ==
  /\ clock < MaxClock
  /\ clock' = clock + 1
  /\ UNCHANGED <<formatting, userTimestamps, event, calls, returned, answers, replies>>
  /\ UNCHANGED <<cfgVars, fmtVars, queueVars, files, coVars, jobVars, mode, statusVars, ndirect, histVars, callVars>>

\* ----------------------------------------------------------------------
\* One update through the middlewares, the router and its handler
\* ----------------------------------------------------------------------
\* a message update: its sender, its text (None for a photo) and whether it
\* carries a photo
Update(u, text, photo) == [from_user |-> u, text |-> text, photo |-> photo]

\* the handler the router picks: @dp.message(Command("qr")), @dp.message(F.photo),
\* @dp.message() in the order of their registration
Route(ev) ==
  IF Truthy(ev.text) /\ FirstToken(ev.text.value) = << "/", "q", "r" >> THEN "qr_handler"
  ELSE IF ev.photo THEN "photo_handler"
  ELSE "handle_message"

\* the handler gets as far as queue.put: qr_handler with 1..500 characters
\* after the command, photo_handler when the download succeeded, handle_message
\* with a text that is not blank and has at most 1000 characters
Accepts(ev, downloaded) ==
  LET text == IF Truthy(ev.text) THEN ev.text.value ELSE <<>> IN
  CASE Route(ev) = "qr_handler" ->
         /\ RemoveCommandFromMessage(text) # <<>>
         /\ Len(RemoveCommandFromMessage(text)) <= QrLimit
    [] Route(ev) = "photo_handler" -> downloaded
    [] Route(ev) = "handle_message" -> Strip(text) # <<>> /\ ~TooLong(text)

\* the task the handler builds
TaskOf(ev) ==
  CASE Route(ev) = "qr_handler" -> PrintTask(headerOn, QrPayload)
    [] Route(ev) = "photo_handler" -> PrintTask(headerOn, ImagePayload(ImagePrintWidth, 500))
    [] Route(ev) = "handle_message" -> PrintTask(headerOn, TextPayload(TRUE, <<>>))

\* the dispatcher feeds one update to AuthMiddleware, which calls
\* ThrottlingMiddleware, which calls the handler the router picks; the handler
\* puts its task on the queue or only replies
dispatch_update(ev, downloaded) ==
  LET a == AuthMiddleware(ev)
      put == a.handler = 1 /\ Accepts(ev, downloaded)
  IN /\ event' = ev
     /\ calls' = [throttle |-> a.throttle, handler |-> a.handler]
     /\ returned' = Returned(a.auth, a.thr)
     /\ answers' = a.answers
     /\ userTimestamps' = a.stamps
     /\ replies' = IF a.handler = 1 THEN << Route(ev) >> ELSE <<>>
     /\ IF put
          THEN /\ Put(TaskOf(ev))
               /\ putTimes' = [putTimes EXCEPT ![ev.from_user.id] = Append(@, clock)]
               /\ files' = IF Route(ev) = "photo_handler" THEN files \cup {Len(tasks) + 1}
                                                         ELSE files
          ELSE UNCHANGED <<queueVars, outcome, putTimes, files>>
     /\ UNCHANGED <<formatting, clock, header, width, headerLog, settings, img>>
     /\ UNCHANGED <<cfgVars, fmtVars, coVars, jobVars, mode, statusVars, ndirect>>
     /\ UNCHANGED <<attempts, results, dequeues, doneCalls>>

\* ----------------------------------------------------------------------
\* _print_header as one call
\* ----------------------------------------------------------------------
HeaderInfo(ts, u) == [timestamp |-> ts, user |-> u]

\* one call _print_header makes: the method, what distinguishes it, the text
\* written (empty for a style call) and how the call ended
HeaderCall(c, a, t, r) == [cmd |-> c, arg |-> a, text |-> t, res |-> r]

\* a first line that is written whole
Line1Whole(h, w) == h.timestamp \o << " " >> \o h.user

\* line1 = f"{header.timestamp} {header.user}"[:width]
Line1(h, w) == PySlice(h.timestamp \o << " " >> \o h.user, 0, w)

\* "-" * width
RuleLine(w) == Repeat("-", w)

\* the three textln calls of _print_header with their texts
HeaderLines(h, w) ==
  << HeaderCall("textln", "line1", Line1(h, w), "ok"),
     HeaderCall("textln", "rule", RuleLine(w), "ok"),
     HeaderCall("textln", "blank", <<>>, "ok") >>

\* the calls of _print_header(h) for width w: the font switch ending with
\* font (an exception is swallowed), the lines up to the first one that
\* raises (failAt, 0 when none does), and after the last line _reset_style,
\* ending with reset
PrintHeader(h, w, font, failAt, reset) ==
  LET lines == HeaderLines(h, w) IN
  << HeaderCall("set", "font=b", <<>>, font) >>
  \o (IF failAt = 0
        THEN lines \o << HeaderCall("set", "baseline", <<>>, reset) >>
        ELSE SubSeq(lines, 1, failAt - 1)
             \o << [lines[failAt] EXCEPT !.res = "err"] >>)

\* self._print_header(task.header)
print_header ==
  /\ headerLog = <<>>
  /\ \E font \in {"ok", "err"}, failAt \in 0..3, reset \in {"ok", "err"} :
       /\ failAt # 0 => reset = "ok"
       /\ headerLog' = PrintHeader(header, width, font, failAt, reset)
  /\ UNCHANGED <<header, width, settings, img, putTimes>>
  /\ UNCHANGED <<cfgVars, fmtVars, botVars, queueVars, files, coVars, jobVars, mode, statusVars, ndirect, histVars>>

\* ----------------------------------------------------------------------
\* _enhance_image
\* ----------------------------------------------------------------------
\* one operation on an image: its name and its factor (Neutral for a conversion)
Step(op, factor) == [op |-> op, factor |-> factor]

\* img.convert(m)
Convert(im, m, op) == Image(m, Append(im.steps, Step(op, Neutral)))

\* ImageEnhance.X(img).enhance(factor): the mode stays
Enhance(im, op, factor) == Image(im.mode, Append(im.steps, Step(op, factor)))

\* an enhancement that dithers first and adjusts the 1-bit image afterwards
EnhanceImageDitherFirst(im, cfg) ==
  LET a == IF cfg.dithering THEN Convert(im, "1", "dithering") ELSE im
      b == IF cfg.grayscale THEN Convert(a, "L", "grayscale") ELSE a
      c == IF cfg.contrast # Neutral THEN Enhance(b, "contrast", cfg.contrast) ELSE b
      d == IF cfg.sharpness # Neutral THEN Enhance(c, "sharpness", cfg.sharpness) ELSE c
  IN IF cfg.brightness # Neutral THEN Enhance(d, "brightness", cfg.brightness) ELSE d

\* _enhance_image(img) under the IMAGE_* values cfg
EnhanceImage(im, cfg) ==
  LET a == IF cfg.grayscale THEN Convert(im, "L", "grayscale") ELSE im
      b == IF cfg.contrast # Neutral THEN Enhance(a, "contrast", cfg.contrast) ELSE a
      c == IF cfg.sharpness # Neutral THEN Enhance(b, "sharpness", cfg.sharpness) ELSE b
      d == IF cfg.brightness # Neutral THEN Enhance(c, "brightness", cfg.brightness) ELSE c
  IN IF cfg.dithering THEN Convert(d, "1", "dithering") ELSE d

\* img = self._enhance_image(img)
enhance_image ==
  /\ img.result = NoImage
  /\ img' = EnhanceCall(img.given, EnhanceImage(img.given, settings))
  /\ UNCHANGED <<header, width, headerLog, settings, putTimes>>
  /\ UNCHANGED <<cfgVars, fmtVars, botVars, queueVars, files, coVars, jobVars, mode, statusVars, ndirect, histVars>>

\* ----------------------------------------------------------------------
\* Specifications
\* ----------------------------------------------------------------------
Producers == handle_message \/ qr_handler \/ photo_handler

Consumer ==
  \/ ProcessQueueMock \/ ProcessQueueGet
  \/ PrintTaskReturn \/ PrintTaskRetry \/ PrintTaskWake \/ PrintTaskGiveUp

RenderJob ==
  \/ PrintHeaderFont \/ PrintHeaderLine \/ PrintHeaderReset
  \/ PrintPlainText
  \/ ApplySegmentStyle \/ PrintSegmentText \/ ResetSegmentStyle
  \/ PrintQrCode \/ PrintQrFallback
  \/ ReinitializeInit \/ ReinitializeCodepage \/ ReinitializeStyle
  \/ PrepareImage \/ SetImageDensity \/ PrintImageRaster \/ UnlinkImage

Cut == \E f \in Flows : CutPartial(f) \/ CutMode(f) \/ CutPlain(f)

Status == StatusCall \/ QueryOnline \/ QueryPaper \/ StatusReply

Direct ==
  \/ PrintQrCall \/ DoPrintQr \/ DoPrintQrFallback
  \/ PrintQrReturn \/ PrintQrRetry \/ PrintQrWake \/ PrintQrRaise

\* the bot: producers and the consumer loop
Next == Producers \/ Consumer \/ RenderJob \/ Cut

Spec == Init /\ [][Next]_vars

\* the bot with /status callers beside the consumer loop
NextStatus == Next \/ Status

SpecStatus == Init /\ [][NextStatus]_vars

\* the bot while the first render attempt of the consumer loop is under way
\* and need not go on (a device call of the job may never return): updates
\* are handled and status() is called meanwhile; the two probes of a status
\* call run in an executor thread of their own and return
NextStalled == Producers \/ ProcessQueueGet \/ RenderJob \/ Cut \/ Status

SpecStalled == Init /\ [][NextStalled]_vars /\ WF_vars(QueryOnline \/ QueryPaper)

\* the bot with a burst of at most MaxBurst accepted updates, under a fair
\* event loop (the consumer coroutine is resumed whenever it can run) and a
\* device whose every operation returns, with success or with an error
NextFair == (Len(tasks) < MaxBurst /\ Producers) \/ Consumer \/ RenderJob \/ Cut

SpecFair ==
  /\ Init /\ [][NextFair]_vars
  /\ WF_vars(Consumer) /\ WF_vars(RenderJob) /\ WF_vars(Cut)

\* AsyncPrinter driven by callers of print_qr (no consumer loop is started)
NextDirect == Direct \/ Cut

SpecDirect == Init /\ [][NextDirect]_vars

\* AsyncPrinter driven by callers of print_qr and of status()
NextProbe == Status \/ Direct \/ Cut

SpecProbe == Init /\ [][NextProbe]_vars

\* build_print_job applied to every text and entity list of the bounded sets
InitFormatter ==
  /\ mock = FALSE
  /\ headerOn = FALSE
  /\ imageCfg = "unread"
  /\ Constructed
  /\ msgText \in Texts
  /\ msgEntities \in EntityLists
  /\ normEntities = <<>>
  /\ built = FALSE
  /\ printJob = <<>>
  /\ message = NoMessage
  /\ queueItem = PyNone
  /\ formatting = TRUE
  /\ Polling
  /\ Uncalled

NextFormatter == build_print_job

SpecFormatter == InitFormatter /\ [][NextFormatter]_vars

\* build_print_job applied to every text with one entity of every type: the
\* types formatter.py names, "italic", one it does not know, and two spelled
\* with capital letters
EntityTypes ==
  {"bold", "underline", "strikethrough", "code", "pre", "blockquote",
   "italic", "spoiler", "Bold", "CODE"}

\* (offset, length) of that entity: the ranges above and the first code unit
TypeRanges == SpanRanges \cup { <<0, 1>> }

SingleEntityLists ==
  { << MessageEntity(r[1], r[2], t) >> : r \in TypeRanges, t \in EntityTypes }

InitTypes ==
  /\ mock = FALSE
  /\ headerOn = FALSE
  /\ imageCfg = "unread"
  /\ Constructed
  /\ msgText \in Texts
  /\ msgEntities \in SingleEntityLists
  /\ normEntities = <<>>
  /\ built = FALSE
  /\ printJob = <<>>
  /\ message = NoMessage
  /\ queueItem = PyNone
  /\ formatting = TRUE
  /\ Polling
  /\ Uncalled

NextTypes == build_print_job

SpecTypes == InitTypes /\ [][NextTypes]_vars

\* build_print_job applied to every text with one bold entity of any offset
\* and length around the text's code units, alone or beside a malformed entity
SliceOffsets == (0 - 2)..(2 * MaxText + 1)

SliceLengths == (0 - 1)..(2 * MaxText + 2)

SliceEntityLists ==
  UNION { { << MessageEntity(o, l, "bold") >>,
            << Malformed, MessageEntity(o, l, "bold") >>,
            << MessageEntity(o, l, "bold"), Malformed >> }
          : o \in SliceOffsets, l \in SliceLengths }

InitSlice ==
  /\ mock = FALSE
  /\ headerOn = FALSE
  /\ imageCfg = "unread"
  /\ Constructed
  /\ msgText \in Texts
  /\ msgEntities \in SliceEntityLists
  /\ normEntities = <<>>
  /\ built = FALSE
  /\ printJob = <<>>
  /\ message = NoMessage
  /\ queueItem = PyNone
  /\ formatting = TRUE
  /\ Polling
  /\ Uncalled

NextSlice == build_print_job

SpecSlice == InitSlice /\ [][NextSlice]_vars

\* build_print_job applied to the text of test_build_print_job_basic_styles
\* with up to MaxSpans bold or code entities of five code units each
HelloWorld == << "H", "e", "l", "l", "o", " ", "w", "o", "r", "l", "d" >>

HelloEntities ==
  { MessageEntity(o, 5, t) : o \in 0..(Len(HelloWorld) - 5), t \in {"bold", "code"} }

HelloEntityLists == UNION { [1..n -> HelloEntities] : n \in 0..MaxSpans }

InitHello ==
  /\ mock = FALSE
  /\ headerOn = FALSE
  /\ imageCfg = "unread"
  /\ Constructed
  /\ msgText = HelloWorld
  /\ msgEntities \in HelloEntityLists
  /\ normEntities = <<>>
  /\ built = FALSE
  /\ printJob = <<>>
  /\ message = NoMessage
  /\ queueItem = PyNone
  /\ formatting = TRUE
  /\ Polling
  /\ Uncalled

NextHello == build_print_job

SpecHello == InitHello /\ [][NextHello]_vars

\* message_to_queue_item applied to every message of the bounded sets
MessageTexts == UNION { [1..n -> {"a", " "}] : n \in 0..MaxText }

MessageCaptions == { PyNone, PyStr(<< " ", "a" >>) }

MessageEntityLists ==
  { PyNone, PyMock, PyList(<<>>),
    PyList(<< MessageEntity(0, 1, "bold") >>),
    PyList(<< MessageEntity(1, 2, "code") >>),
    PyList(<< Malformed >>) }

CaptionEntityLists == { PyNone, PyMock, PyList(<< MessageEntity(0, 2, "underline") >>) }

Messages ==
  { Message(t, c, e, ce) :
      t \in {PyNone} \cup { PyStr(x) : x \in MessageTexts },
      c \in MessageCaptions, e \in MessageEntityLists, ce \in CaptionEntityLists }

InitMessage ==
  /\ mock = FALSE
  /\ headerOn = FALSE
  /\ imageCfg = "unread"
  /\ Constructed
  /\ msgText = <<>>
  /\ msgEntities = <<>>
  /\ normEntities = <<>>
  /\ built = FALSE
  /\ printJob = <<>>
  /\ message \in Messages
  /\ queueItem = PyNone
  /\ formatting = TRUE
  /\ Polling
  /\ Uncalled

NextMessage == message_to_queue_item

SpecMessage == InitMessage /\ [][NextMessage]_vars

\* handle_message and qr_handler on the messages above, with formatting on or off
InitHandlers ==
  /\ mock = FALSE
  /\ headerOn \in BOOLEAN
  /\ imageCfg = "unread"
  /\ Constructed
  /\ msgText = <<>>
  /\ msgEntities = <<>>
  /\ normEntities = <<>>
  /\ built = FALSE
  /\ printJob = <<>>
  /\ message = NoMessage
  /\ queueItem = PyNone
  /\ formatting \in BOOLEAN
  /\ Polling
  /\ Uncalled

NextHandlers == TextUpdate \/ QrUpdate

SpecHandlers == InitHandlers /\ [][NextHandlers]_vars

\* the dispatcher with its two middlewares, and the clock
NextMiddleware == Dispatch \/ Tick

SpecMiddleware == Init /\ [][NextMiddleware]_vars

\* the middlewares with the handlers behind them: a text, a /qr command, an
\* unknown command and a photo, from one user of the whitelist and from a
\* stranger, as the seconds pass
Updates ==
  { Update(User(id), c[1], c[2]) :
      id \in {111, Stranger},
      c \in { << PyStr(<< "H", "i" >>), FALSE >>,
              << PyStr(<< "/", "q", "r", " ", "x" >>), FALSE >>,
              << PyStr(<< "/", "x" >>), FALSE >>,
              << PyNone, TRUE >> } }

\* bot.download_file succeeds or raises; only a photo is downloaded
Downloads(ev) == IF ev.photo THEN BOOLEAN ELSE {FALSE}

Deliver == \E ev \in Updates : \E downloaded \in Downloads(ev) : dispatch_update(ev, downloaded)

\* the bot at start-up with a printer attached and the header switched on
InitBot == Init /\ ~mock /\ headerOn

NextBot == Deliver \/ Tick

SpecBot == InitBot /\ [][NextBot]_vars

\* _print_header alone: every header over HeaderChars with a timestamp and a
\* user of at most MaxHeader characters, every width up to MaxWidth
HeaderChars == {"a", "b"}

HeaderStrings == UNION { [1..n -> HeaderChars] : n \in 0..MaxHeader }

Headers == { HeaderInfo(ts, u) : ts \in HeaderStrings, u \in HeaderStrings }

Widths == 0..MaxWidth

InitHeader ==
  /\ mock = FALSE
  /\ headerOn = TRUE
  /\ imageCfg = "unread"
  /\ Constructed
  /\ msgText = <<>>
  /\ msgEntities = <<>>
  /\ normEntities = <<>>
  /\ built = FALSE
  /\ printJob = <<>>
  /\ message = NoMessage
  /\ queueItem = PyNone
  /\ formatting = TRUE
  /\ Polling
  /\ header \in Headers
  /\ width \in Widths
  /\ headerLog = <<>>
  /\ settings = NoSettings
  /\ img = EnhanceCall(NoImage, NoImage)
  /\ putTimes = [u \in UserIds |-> <<>>]

NextHeader == print_header

SpecHeader == InitHeader /\ [][NextHeader]_vars

\* _enhance_image alone: an RGB picture under every combination of the two
\* toggles and of three factors per strength, from Neutral - MaxDelta to
\* Neutral + MaxDelta
Strengths == (Neutral - MaxDelta)..(Neutral + MaxDelta)

Settings ==
  [grayscale : BOOLEAN, contrast : Strengths, sharpness : Strengths,
   brightness : Strengths, dithering : BOOLEAN]

InitEnhance ==
  /\ mock = FALSE
  /\ headerOn = TRUE
  /\ imageCfg = "on"
  /\ Constructed
  /\ msgText = <<>>
  /\ msgEntities = <<>>
  /\ normEntities = <<>>
  /\ built = FALSE
  /\ printJob = <<>>
  /\ message = NoMessage
  /\ queueItem = PyNone
  /\ formatting = TRUE
  /\ Polling
  /\ header = NoHeaderInfo
  /\ width = HeaderLineWidth
  /\ headerLog = <<>>
  /\ settings \in Settings
  /\ img = EnhanceCall(Image("RGB", <<>>), NoImage)
  /\ putTimes = [u \in UserIds |-> <<>>]

NextEnhance == enhance_image

SpecEnhance == InitEnhance /\ [][NextEnhance]_vars

\* ----------------------------------------------------------------------
\* Properties of the delivery queue and the retry loop
\* ----------------------------------------------------------------------
Created == 1..Len(tasks)

InQueue(i) == \E k \in 1..Len(queue) : queue[k] = i

Terminal(i) == outcome[i] \in {"printed", "dropped"}

AllFail(r) == \A k \in 1..Len(r) : r[k] = "fail"

\* C1: a task whose render fails on attempts 1 and 2 and succeeds on attempt 3
\* has had exactly 3 attempts and print_task returned (the task is printed); a
\* task whose render failed 3 times has had exactly 3 attempts, print_task
\* raised and the consumer loop dropped it: it is neither in the queue nor held
\* nor kept anywhere.
C1_RetryOutcome ==
  \A i \in Created :
    /\ (Len(results[i]) >= 3 /\ results[i][1] = "fail" /\ results[i][2] = "fail"
          /\ results[i][3] = "ok")
         => /\ results[i] = <<"fail", "fail", "ok">>
            /\ attempts[i] = 3
            /\ outcome[i] = "printed"
    /\ (Len(results[i]) >= 3 /\ results[i][1] = "fail" /\ results[i][2] = "fail"
          /\ results[i][3] = "fail")
         => /\ results[i] = <<"fail", "fail", "fail">>
            /\ attempts[i] = 3
            /\ outcome[i] = "dropped"
            /\ ~InQueue(i)
            /\ cur # i
            /\ tasks[i] = Discarded
            /\ dequeues[i] = 1

C1_Witness ==
  \E i, j \in Created :
    /\ results[i] = <<"fail", "fail", "ok">>
    /\ results[j] = <<"fail", "fail", "fail">>
    /\ outcome[j] = "dropped"

\* C2: a task has between 0 and 3 render attempts; attempt k+1 starts only
\* after attempt k failed, and no attempt is made after one has succeeded.
C2_AttemptsBounded ==
  \A i \in Created :
    /\ attempts[i] \in 0..3
    /\ Len(results[i]) <= attempts[i]
    /\ attempts[i] <= Len(results[i]) + 1
    /\ \A k \in 1..(Len(results[i]) - 1) : results[i][k] = "fail"
    /\ attempts[i] > Len(results[i]) => AllFail(results[i])

C2_Witness ==
  \E i \in Created :
    /\ attempts[i] = 3
    /\ Len(results[i]) = 2
    /\ tpc["consumer"] \notin {"none", "ret", "raise"}

\* C3: tasks are rendered in enqueue order and never interleaved: when any
\* attempt of a task has started, every task enqueued before it has finished
\* all of its attempts (retries and the sleeps between them included).
C3_FifoOrder ==
  \A i, j \in Created :
    (i < j /\ attempts[j] > 0)
      => /\ Terminal(i)
         /\ Len(results[i]) = attempts[i]
         /\ cur # i

C3_Witness ==
  \E i, j \in Created :
    /\ i < j
    /\ attempts[i] = 3
    /\ attempts[j] > 0
    /\ cur = j

\* C4: a failing task never stops the consumer loop: the loop is always at
\* queue.get, awaiting an attempt or sleeping before a retry, and whenever it
\* is at queue.get with a task queued (notably after a task was dropped) it
\* can dequeue that task.
C4_LoopSurvives ==
  /\ cpc["consumer"] \in {"get", "await", "sleep"}
  /\ (cpc["consumer"] = "get") <=> (cur = 0)
  /\ (cpc["consumer"] = "get" /\ queue # <<>>) => ENABLED (ProcessQueueGet \/ ProcessQueueMock)

C4_Witness ==
  \E i, j \in Created :
    /\ i < j
    /\ outcome[i] = "dropped"
    /\ outcome[j] = "printed"
    /\ attempts[j] > 0

\* C5: every task is dequeued at most once and, once consumed, exactly once;
\* it ends in one terminal outcome that never changes, it is never put back in
\* the queue, and task_done is called exactly once per dequeued task, after a
\* success and after a failure alike.
C5_StateOk ==
  /\ \A i \in Created :
       /\ dequeues[i] <= 1
       /\ doneCalls[i] <= dequeues[i]
       /\ outcome[i] \in {"queued", "taken", "printed", "dropped"}
       /\ outcome[i] = "queued" => (InQueue(i) /\ dequeues[i] = 0)
       /\ outcome[i] = "taken" => (~InQueue(i) /\ dequeues[i] = 1 /\ doneCalls[i] = 0 /\ cur = i)
       /\ Terminal(i) => (~InQueue(i) /\ dequeues[i] = 1 /\ doneCalls[i] = 1 /\ cur # i)
       /\ (outcome[i] = "dropped") => (Len(results[i]) = 3 /\ AllFail(results[i]))
       /\ (outcome[i] = "printed" /\ ~mock) => results[i][Len(results[i])] = "ok"
  /\ \A k, l \in 1..Len(queue) : (queue[k] = queue[l]) => (k = l)
  /\ unfinished = Cardinality({i \in Created : ~Terminal(i)})

C5_ConsumedOnce ==
  /\ [](C5_StateOk)
  /\ [][\A i \in Created : Terminal(i) => outcome'[i] = outcome[i]]_vars

C5_Witness ==
  \E i, j \in Created :
    /\ outcome[i] = "dropped"
    /\ outcome[j] = "printed"
    /\ doneCalls[i] = 1
    /\ doneCalls[j] = 1

\* C6: enqueue never blocks and never drops: no producer is ever suspended in
\* queue.put, and every enqueue appends its task at the tail and leaves the
\* queued tasks and their order as they were, whatever the consumer is doing.
C6_EnqueueAppends ==
  /\ [](blocked = <<>>)
  /\ [][Len(tasks') > Len(tasks) => queue' = Append(queue, Len(tasks) + 1)]_vars

C6_Witness ==
  /\ cpc["consumer"] = "sleep"
  /\ Len(tasks) = 2
  /\ queue = <<2>>
  /\ blocked = <<>>

\* ----------------------------------------------------------------------
\* Properties of the device access
\* ----------------------------------------------------------------------
\* the executor job of flow f is between its first and its last device call
Rendering(f) == tpc[f] \notin {"none", "ret", "raise"}

\* a status probe (is_online, paper_status) is executing in the executor
Probing == spc \in {"online", "paper"}

\* C7: no two logical flows issue commands to the device concurrently: while
\* a render attempt of the consumer loop is executing in the executor, no
\* status probe is executing.
C7_DeviceSerialized == ~(Rendering("consumer") /\ Probing)

TextWrite(e) == e.cmd \in {"text", "textln"}

\* C8: no text write (text or textln, header lines included) is ever issued
\* while the device is in graphics mode.
C8_NoTextInGraphicsMode ==
  \A f \in Flows : \A k \in 1..Len(log[f]) :
    TextWrite(log[f][k]) => log[f][k].mode = "text"

IsCmd(e, c, a) == e.cmd = c /\ e.arg = a /\ e.res = "ok"

\* C9: on every path that emits a QR code, the emission is followed, before
\* the cut, by the re-initialization sequence: ESC @, codepage select,
\* baseline style reset, in this order.
C9_QrThenReinit ==
  \A f \in Flows : \A j, k \in 1..Len(log[f]) :
    (j < k /\ log[f][j].cmd = "qr" /\ log[f][j].res = "ok" /\ log[f][k].cmd = "cut")
      => /\ j + 3 < k
         /\ IsCmd(log[f][j + 1], "raw", "init")
         /\ IsCmd(log[f][j + 2], "raw", "codepage")
         /\ log[f][j + 3].cmd = "set" /\ log[f][j + 3].arg = "baseline"

\* C10: every qr call issued for a task, the one of the TypeError fallback
\* branch included, requests native=False.
C10_QrNeverNative ==
  \A f \in Flows : \A k \in 1..Len(log[f]) :
    log[f][k].cmd = "qr" => log[f][k].arg = "native=False"

\* ----------------------------------------------------------------------
\* Properties of the style discipline
\* ----------------------------------------------------------------------
SegmentWritten(e) == e.cmd = "text" /\ e.arg = "segment" /\ e.res = "ok"

BaselineReset(e) == e.cmd = "set" /\ e.arg = "baseline"

\* C11: in a segment-list body, the call that follows the written text of a
\* segment is the baseline reset (before the style of the next segment is
\* applied and before the cut), also after the last segment and also when the
\* segment's style is empty.
C11_ResetAfterSegment ==
  LET l == log["consumer"] IN
  \A k \in 1..Len(l) :
    SegmentWritten(l[k])
      => IF k < Len(l) THEN BaselineReset(l[k + 1]) ELSE tpc["consumer"] = "seg_reset"

C11_Witness ==
  LET l == log["consumer"] IN
  \E k \in 2..(Len(l) - 2) :
    /\ BaselineReset(l[k - 1])
    /\ SegmentWritten(l[k])
    /\ BaselineReset(l[k + 1])
    /\ l[k + 2].cmd = "cut"
    /\ Task.payload.job[Len(Task.payload.job)].style = {}

\* C12: the baseline reset is re-applied at the start of every task's
\* rendering: every text write of a render attempt (header line, plain text
\* or segment text) comes after a baseline reset issued earlier in that same
\* attempt, so that no text is written under a style left over from before.
C12_ResetBeforeText ==
  LET l == log["consumer"] IN
  \A k \in 1..Len(l) :
    TextWrite(l[k]) => \E j \in 1..(k - 1) : BaselineReset(l[j])

StyleApplied(e) == e.cmd = "set" /\ e.arg \in {"style", "font=b"} /\ e.res = "ok"

\* C13: style application has a matching reset on every exit path: when a
\* render attempt ends with a failed text write (segment text or header line)
\* made under an applied style, a baseline reset was issued after that write.
C13_ResetOnFailure ==
  LET l == log["consumer"] IN
  tpc["consumer"] = "raise"
    => \A j, k \in 1..Len(l) :
         (/\ j < k
          /\ StyleApplied(l[j])
          /\ \A m \in (j + 1)..(k - 1) : ~BaselineReset(l[m])
          /\ TextWrite(l[k])
          /\ l[k].res # "ok")
           => \E m \in (k + 1)..Len(l) : BaselineReset(l[m])

\* ----------------------------------------------------------------------
\* Properties of image tasks and of the retry of device failures
\* ----------------------------------------------------------------------
ImageTaskHeld == cur # 0 /\ tasks[cur].payload.kind = "image"

UnlinkFailed(l) == \E k \in 1..Len(l) : l[k].cmd = "unlink" /\ l[k].res # "ok"

\* C14: after every render attempt of an image task, ended by a return or by
\* an exception raised at any step, the temp file no longer exists, unless
\* the deletion itself failed (which is logged only).
C14_SourceDeleted ==
  (ImageTaskHeld /\ tpc["consumer"] \in {"ret", "raise"} /\ ~UnlinkFailed(log["consumer"]))
    => cur \notin files

\* C15: a transient device failure is retried with success for every payload
\* kind: when attempt 1 of a task failed on a device call, attempt 2 of that
\* task fails only if a device call fails again (the configuration being
\* complete and the picture decodable).
C15_TransientRetried ==
  LET l == log["consumer"] IN
  (/\ cpc["consumer"] = "await"
   /\ tpc["consumer"] = "raise"
   /\ attempt["consumer"] = 1
   /\ firstFail = "device"
   /\ imageCfg # "undefined"
   /\ ~\E k \in 1..Len(l) : l[k].cmd = "pil" /\ l[k].res = "err")
    => DeviceFailed(l)

\* ----------------------------------------------------------------------
\* Properties of status()
\* ----------------------------------------------------------------------
PaperLevels == <<"0", "1", "2">>

\* C16: status() never propagates an error: a call is answered, with
\* online=False and paper None when the online probe raised, with the probed
\* online value and paper None when only the paper probe raised, and with the
\* probed online value and paper level otherwise.
C16_StatusNeverRaises ==
  /\ spc \in {"idle", "online", "paper", "done"}
  /\ (spc = "done" /\ ~mock)
       => CASE probed.online = "raised" ->
                 /\ probed.paper = "unasked"
                 /\ sres = StatusResult(FALSE, PaperNone)
            [] probed.online # "raised" /\ probed.paper = "raised" ->
                 /\ probed.online \in {"True", "False"}
                 /\ sres = StatusResult(probed.online = "True", PaperNone)
            [] OTHER ->
                 /\ probed.online \in {"True", "False"}
                 /\ \E n \in 0..2 :
                      /\ probed.paper = PaperLevels[n + 1]
                      /\ sres = StatusResult(probed.online = "True", Paper(n))

C16_Witness ==
  /\ spc = "done"
  /\ probed = Probed("True", "raised")
  /\ sres = StatusResult(TRUE, PaperNone)
  /\ Rendering("direct")

\* ----------------------------------------------------------------------
\* Properties of build_print_job
\* ----------------------------------------------------------------------
\* the texts of the segments of a job, concatenated in order
RECURSIVE Concat(_)
Concat(job) == IF job = <<>> THEN <<>> ELSE Head(job).text \o Concat(Tail(job))

\* index in the source text (from 0) at which segment k of a job starts
RECURSIVE SegStart(_, _)
SegStart(job, k) == IF k = 1 THEN 0 ELSE SegStart(job, k - 1) + Len(job[k - 1].text)

SegEnd(job, k) == SegStart(job, k) + Len(job[k].text)

\* C17: for every text and every entity list (any offsets, lengths and types,
\* overlapping or not) the texts of the segments of build_print_job,
\* concatenated in order, equal the text; every segment has a non-empty text
\* and the segments are consecutive, non-overlapping ranges of the text.
C17_SegmentsReproduceText ==
  built =>
    /\ Concat(printJob) = msgText
    /\ \A k \in 1..Len(printJob) :
         /\ printJob[k].text # <<>>
         /\ printJob[k].text = SubSeq(msgText, SegStart(printJob, k) + 1, SegEnd(printJob, k))
    /\ printJob # <<>> => SegEnd(printJob, Len(printJob)) = Len(msgText)

\* two entities that overlap without one containing the other, in a text with
\* a surrogate pair
C17_Witness ==
  /\ built
  /\ Len(printJob) = 3
  /\ \E i \in 1..Len(msgText) : msgText[i] \in Astral
  /\ LET norm == ExtractEntities(msgText, msgEntities) IN
       /\ Len(norm) = 2
       /\ norm[1][1] < norm[2][1]
       /\ norm[2][1] < norm[1][2]
       /\ norm[1][2] < norm[2][2]

\* the style items one entity type stands for
KindStyle(kind) ==
  CASE kind = "bold" -> { <<"bold", "True">> }
    [] kind = "underline" -> { <<"underline", "1">> }
    [] kind = "strikethrough" -> { <<"invert", "True">> }
    [] kind \in {"code", "pre"} -> { <<"font", "b">> }
    [] kind = "blockquote" -> { <<"double_height", "True">>, <<"double_width", "True">> }
    [] OTHER -> {}

\* the readable entities of the message whose clamped codepoint range covers [a, b)
CoveringEntities(a, b) ==
  { j \in 1..Len(msgEntities) :
      /\ ~msgEntities[j].malformed
      /\ LET r == Utf16RangeToPySlice(msgText, msgEntities[j].offset, msgEntities[j].length)
         IN r[1] <= a /\ r[2] >= b }

\* C18: the style of each segment is the union of the mapped styles of
\* exactly the entities whose clamped codepoint range covers the whole range
\* of the segment; an entity covering only a part of it contributes nothing.
C18_StyleOfCoveringSpans ==
  built =>
    \A k \in 1..Len(printJob) :
      printJob[k].style =
        UNION { KindStyle(msgEntities[j].type) :
                  j \in CoveringEntities(SegStart(printJob, k), SegEnd(printJob, k)) }

\* a segment under two styled entities next to a segment under one of them only
C18_Witness ==
  /\ built
  /\ Len(printJob) >= 2
  /\ printJob[1].style = { <<"bold", "True">>, <<"font", "b">> }
  /\ printJob[2].style = { <<"font", "b">> }
  /\ Len(ExtractEntities(msgText, msgEntities)) = 2

\* C19 as stated: for every text, the empty one included, build_print_job
\* with no entities returns exactly one segment, holding the text, with an
\* empty style.
C19_OneSegmentForAnyText ==
  (built /\ msgEntities = <<>>) => printJob = << Segment(msgText, {}) >>

\* C19: for every non-empty text build_print_job with no entities returns
\* exactly one segment, holding the text, with an empty style; for the empty
\* text it returns no segment at all.
C19_OneSegmentForText ==
  (built /\ msgEntities = <<>>)
    => IF msgText = <<>> THEN printJob = <<>> ELSE printJob = << Segment(msgText, {}) >>

C19_Witness ==
  /\ built
  /\ msgEntities = <<>>
  /\ Len(msgText) >= 2
  /\ Len(printJob) = 1
  /\ printJob[1].style = {}

MappedKinds == {"bold", "underline", "strikethrough", "code", "pre", "blockquote"}

\* the entity list without the entities of type italic or of an unknown type
MappedOnly(entities) == SelectSeq(entities, LAMBDA e : e.type \in MappedKinds)

\* the style each character of the text is printed with, in text order
RECURSIVE CharStyles(_)
CharStyles(job) ==
  IF job = <<>> THEN <<>>
  ELSE [i \in 1..Len(Head(job).text) |-> Head(job).style] \o CharStyles(Tail(job))

\* C20: an entity of type italic, or of a type outside bold, underline,
\* strikethrough, code, pre and blockquote, adds no style key: a job of such
\* entities only has no style at all, and every character is printed with the
\* style it has when those entities are left out of the list, so the other
\* entities are applied as they are without them.
C20_UnmappedKindsAddNothing ==
  built =>
    /\ MappedOnly(msgEntities) = <<>> => \A k \in 1..Len(printJob) : printJob[k].style = {}
    /\ CharStyles(printJob) = CharStyles(BuildPrintJob(msgText, MappedOnly(msgEntities)))

C20_Witness ==
  /\ built
  /\ Len(msgEntities) = 2
  /\ msgEntities[1].type \in {"italic", "spoiler"}
  /\ msgEntities[2].type = "bold"
  /\ Len(ExtractEntities(msgText, msgEntities)) = 2
  /\ Len(printJob) >= 2
  /\ printJob[1].style = { <<"bold", "True">> }
  /\ printJob[2].style = {}


\* ----------------------------------------------------------------------
\* Properties of the type-to-style mapping
\* ----------------------------------------------------------------------
\* the style the mapping gives one entity type: the five rows of the table,
\* spelled exactly; every other type string gives no key
MappingRow(type) ==
  IF type = "bold" THEN { <<"bold", "True">> }
  ELSE IF type = "underline" THEN { <<"underline", "1">> }
  ELSE IF type = "strikethrough" THEN { <<"invert", "True">> }
  ELSE IF type \in {"code", "pre"} THEN { <<"font", "b">> }
  ELSE IF type = "blockquote"
    THEN { <<"double_height", "True">>, <<"double_width", "True">> }
  ELSE {}

TestRow(type) ==
  IF type = "bold" THEN <<"bold", "True">>
  ELSE IF type = "underline" THEN <<"underline", "1">>
  ELSE IF type = "strikethrough" THEN <<"double_strike", "True">>
  ELSE IF type \in {"code", "pre"} THEN <<"font", "b">>
  ELSE <<"bold", "True">>

\* C22: for a one-character text and one entity of type bold, underline,
\* strikethrough, code, pre or blockquote at offset 0 with length 1, the job
\* is exactly one segment holding the text, and its style has the item of
\* the test's table: bold -> bold True, underline -> underline 1,
\* strikethrough -> double_strike True, code and pre -> font 'b',
\* blockquote -> bold True
C22_TestTable ==
  ( /\ built
    /\ Len(msgText) = 1
    /\ msgEntities[1].offset = 0
    /\ msgEntities[1].length = 1
    /\ msgEntities[1].type \in
         {"bold", "underline", "strikethrough", "code", "pre", "blockquote"} )
    => /\ Len(printJob) = 1
       /\ printJob[1].text = msgText
       /\ TestRow(msgEntities[1].type) \in printJob[1].style


\* ----------------------------------------------------------------------
\* Properties of the offset conversion
\* ----------------------------------------------------------------------
\* the well-formed entity of the list at hand
TheEntity == CHOOSE k \in 1..Len(msgEntities) : ~msgEntities[k].malformed

\* the code unit n is where a character of text starts, or the text's end
OnCharBoundary(text, n) == \E i \in 0..Len(text) : CuIndex(text, i) = n

\* the Python indices of the characters of text whose code units all lie in
\* [offset, offset + length)
CharsWithin(text, offset, length) ==
  { c \in 0..(Len(text) - 1) :
      offset <= CuIndex(text, c) /\ CuIndex(text, c + 1) <= offset + length }

\* C23: a span whose first code unit and whose end both fall on character
\* boundaries of the text and that holds at least one character is converted
\* to the codepoint range of exactly the characters whose code units lie in
\* [offset, offset + length), and the styled segment of the job is the text
\* of those characters, also when characters of two code units precede it
C23_SpanSelectsItsCharacters ==
  LET ent == msgEntities[TheEntity] IN
  ( /\ built
    /\ OnCharBoundary(msgText, ent.offset)
    /\ OnCharBoundary(msgText, ent.offset + ent.length)
    /\ ent.length > 0 )
    => /\ Len(normEntities) = 1
       /\ normEntities[1][3] = ent.type
       /\ { c \in 0..(Len(msgText) - 1) : normEntities[1][1] <= c /\ c < normEntities[1][2] }
            = CharsWithin(msgText, ent.offset, ent.length)
       /\ \E k \in 1..Len(printJob) :
            /\ printJob[k].style = { <<"bold", "True">> }
            /\ SegStart(printJob, k) = normEntities[1][1]
            /\ SegEnd(printJob, k) = normEntities[1][2]
            /\ \A j \in 1..Len(printJob) : j # k => printJob[j].style = {}

\* a span of one code unit right after a character of two code units selected
\* the second character, not the third
C23_Witness ==
  /\ built
  /\ Len(msgText) = 3
  /\ msgText[1] \in Astral
  /\ msgEntities = << MessageEntity(2, 1, "bold") >>
  /\ normEntities = << <<1, 2, "bold">> >>
  /\ Len(printJob) = 3
  /\ printJob[2] = Segment(<< msgText[2] >>, { <<"bold", "True">> })


\* C24: for every offset and length the converted range satisfies
\* 0 <= start <= end <= len(text); a span reaching past the end of the text
\* ends at len(text); a span that clamps to zero or negative length is
\* dropped, adds no boundary and leaves the job one unstyled segment; an
\* entity whose extraction raises is skipped and the other entity of the
\* list is extracted as if it stood alone
C24_RangeClamped ==
  LET ent == msgEntities[TheEntity]
      slice == Utf16RangeToPySlice(msgText, ent.offset, ent.length)
      total_cu == CuIndex(msgText, Len(msgText))
  IN /\ 0 <= slice[1] /\ slice[1] <= slice[2] /\ slice[2] <= Len(msgText)
     /\ (ent.offset + ent.length >= total_cu) => (slice[2] = Len(msgText))
     /\ (built /\ msgText # <<>>)
          => /\ \A k \in 1..Len(normEntities) :
                  /\ 0 <= normEntities[k][1]
                  /\ normEntities[k][1] < normEntities[k][2]
                  /\ normEntities[k][2] <= Len(msgText)
             /\ (slice[1] >= slice[2])
                  => /\ normEntities = <<>>
                     /\ printJob = << Segment(msgText, {}) >>
             /\ (slice[1] < slice[2])
                  => /\ normEntities = << <<slice[1], slice[2], ent.type>> >>
                     /\ Boundaries(msgText, normEntities) = {0, slice[1], slice[2], Len(msgText)}

\* a malformed entity came first and the span after it, reaching far past the
\* end of the text, was still extracted and clamped to the end
C24_Witness ==
  /\ built
  /\ Len(msgText) = 3
  /\ msgText[1] = "a"
  /\ msgEntities[1] = Malformed
  /\ msgEntities[2].offset = 1
  /\ msgEntities[2].length = 2 * MaxText + 2
  /\ normEntities = << <<1, 3, "bold">> >>
  /\ Len(printJob) = 2


\* ----------------------------------------------------------------------
\* The documented example
\* ----------------------------------------------------------------------
\* C25: build_print_job("Hello world", [bold at offset 0 with length 5, code
\* at offset 6 with length 5]) is exactly three segments in this order:
\* "Hello" with style {bold: True}, " " with the empty style, "world" with
\* style {font: 'b'}
C25_HelloWorld ==
  ( /\ built
    /\ msgText = HelloWorld
    /\ msgEntities = << MessageEntity(0, 5, "bold"), MessageEntity(6, 5, "code") >> )
    => printJob = << Segment(<< "H", "e", "l", "l", "o" >>, { <<"bold", "True">> }),
                     Segment(<< " " >>, {}),
                     Segment(<< "w", "o", "r", "l", "d" >>, { <<"font", "b">> }) >>

\* the call of the example has returned a job of three segments
C25_Witness ==
  /\ built
  /\ msgText = HelloWorld
  /\ msgEntities = << MessageEntity(0, 5, "bold"), MessageEntity(6, 5, "code") >>
  /\ Len(printJob) = 3


\* ----------------------------------------------------------------------
\* Properties of the image render
\* ----------------------------------------------------------------------
\* the place of a command in the order of the image steps (0: not one of them)
ImageStepRank(e) ==
  IF e.cmd = "pil" /\ e.arg = "decode" THEN 1
  ELSE IF e.cmd = "pil" /\ e.arg = "rotate" THEN 2
  ELSE IF e.cmd = "pil" /\ e.arg = "resize" THEN 3
  ELSE IF e.cmd = "pil" /\ e.arg = "enhance" THEN 4
  ELSE IF e.cmd = "set" /\ e.arg = "density" THEN 5
  ELSE IF e.cmd = "image" THEN 6
  ELSE IF e.cmd = "raw" /\ e.arg = "init" THEN 7
  ELSE 0

\* C26: in one render attempt of an image task the steps decode, rotation,
\* resize, enhancement, density set, raster emission and re-initialization
\* occur at most once each and in this order, so no rotation follows the
\* resize and no enhancement precedes it; the decoded picture is rotated iff
\* its width exceeds its height, resized iff its width then differs from the
\* print width, and enhanced iff enhancement is enabled; the density is set
\* only after the enhancement setting was read, and a raster that went out
\* is followed by the re-initialization
C26_ImageStepOrder ==
  ImageTaskHeld =>
    LET l == log["consumer"]
        steps == SelectSeq(l, LAMBDA e : ImageStepRank(e) > 0)
        done == { ImageStepRank(steps[i]) : i \in 1..Len(steps) }
    IN /\ \A i \in 1..(Len(steps) - 1) :
            ImageStepRank(steps[i]) < ImageStepRank(steps[i + 1])
       /\ (steps # <<>> /\ steps[1].res = "ok") =>
            /\ ImageStepRank(steps[1]) = 1
            /\ (2 \in done) <=> (Task.payload.w > Task.payload.h)
            /\ (3 \in done)
                 <=> ((IF Task.payload.w > Task.payload.h THEN Task.payload.h
                                                          ELSE Task.payload.w)
                        # ImagePrintWidth)
            /\ (4 \in done) <=> (imageCfg = "on")
       /\ (steps # <<>> /\ steps[1].res # "ok") => Len(steps) = 1
       /\ (5 \in done) => imageCfg \in {"on", "off"}
       /\ \A k \in 1..(Len(l) - 1) :
            (~mock /\ l[k].cmd = "image" /\ l[k].res = "ok")
              => ImageStepRank(l[k + 1]) = 7

\* a landscape picture went through every step of an attempt, enhancement
\* included, and the re-initialization has started
C26_Witness ==
  /\ ImageTaskHeld
  /\ Task.payload.w > Task.payload.h
  /\ imageCfg = "on"
  /\ \E k \in 1..Len(log["consumer"]) :
       /\ k + 6 = Len(log["consumer"])
       /\ [i \in 0..6 |-> ImageStepRank(log["consumer"][k + i])]
            = [i \in 0..6 |-> i + 1]


\* ----------------------------------------------------------------------
\* Properties of message_to_queue_item
\* ----------------------------------------------------------------------
\* the text of a message: its text, or its caption when the text is absent
\* or empty, or the empty string
TextOf(m) ==
  IF m.text.type = "str" /\ m.text.value # <<>> THEN m.text.value
  ELSE IF m.caption.type = "str" THEN m.caption.value
  ELSE <<>>

\* the entity list of a message: entities when it is a list, else
\* caption_entities when that is a list, else none (the empty list)
EntityListOf(m) ==
  IF m.entities.type = "list" THEN m.entities.value
  ELSE IF m.caption_entities.type = "list" THEN m.caption_entities.value
  ELSE <<>>

\* t with its leading and trailing whitespace removed: the characters from
\* the first to the last one that is not whitespace
Trimmed(t) ==
  LET inked == { i \in 1..Len(t) : t[i] \notin {" ", "\n"} } IN
  IF inked = {} THEN <<>>
  ELSE SubSeq(t, CHOOSE i \in inked : \A j \in 1..(i - 1) : j \notin inked,
                 CHOOSE i \in inked : \A j \in (i + 1)..Len(t) : j \notin inked)

\* C27: message_to_queue_item returns a plain string, the message text
\* without its leading and trailing whitespace, whenever the message has no
\* usable entity list (absent, not a list, or empty); whenever the list is
\* non-empty it returns the segment list build_print_job makes of the
\* unstripped text, whose segments concatenate to that text
C27_StringOrSegments ==
  queueItem # PyNone =>
    IF EntityListOf(message) = <<>>
      THEN /\ queueItem = PyStr(Trimmed(TextOf(message)))
           /\ ~built
      ELSE /\ queueItem.type = "list"
           /\ queueItem.value = BuildPrintJob(TextOf(message), EntityListOf(message))
           /\ Concat(queueItem.value) = TextOf(message)

\* a message without entities and with caption entities was turned into a
\* segment list that still holds the spaces at both ends of its text
C27_Witness ==
  /\ queueItem # PyNone
  /\ message.text = PyStr(<< " ", "a", " " >>)
  /\ message.entities = PyNone
  /\ message.caption_entities.type = "list"
  /\ queueItem.type = "list"
  /\ Len(queueItem.value) = 2
  /\ Concat(queueItem.value) = << " ", "a", " " >>


\* ----------------------------------------------------------------------
\* Properties of the middlewares
\* ----------------------------------------------------------------------
\* a step in which the dispatcher handled the update ev
Dispatched(ev) == clock' = clock /\ event' = ev

\* updates the rate limit applies to: from a whitelisted user, not a command
Limited(ev) == ev.from_user.known /\ ev.from_user.id \in Whitelist /\ ~IsCommand(ev)

\* C28: with rate_limit = 1, an update of a user that is not a command and
\* arrives less than the period after the accepted update of that user whose
\* time is kept is rejected: the handler is not called, the rate-limit reply
\* is sent and the kept timestamp stays as it is; an update arriving when no
\* timestamp is kept or when the period has elapsed is accepted, the handler
\* is called once and the arrival time is the one timestamp kept; an update
\* without a user always reaches the handler and changes no timestamp
C28_Throttled ==
  [][ \A ev \in Events :
        Dispatched(ev) =>
          /\ Limited(ev) =>
                LET uid == ev.from_user.id IN
                IF \E k \in 1..Len(userTimestamps[uid]) :
                     clock - userTimestamps[uid][k] < PrintRateLimitSeconds
                  THEN /\ calls'.handler = 0
                       /\ returned'.throttle = "None"
                       /\ answers' = << RateLimitExceeded >>
                       /\ userTimestamps'[uid] = userTimestamps[uid]
                  ELSE /\ calls'.handler = 1
                       /\ returned'.throttle = HandlerResult
                       /\ answers' = <<>>
                       /\ userTimestamps'[uid] = << clock >>
          /\ ~ev.from_user.known =>
                /\ calls'.handler = 1
                /\ returned'.throttle = HandlerResult
                /\ answers' = <<>>
                /\ userTimestamps' = userTimestamps ]_vars

\* a second text of a user was rejected one second before the period of the
\* first was over
C28_Witness ==
  /\ Limited(event)
  /\ calls.handler = 0
  /\ answers = << RateLimitExceeded >>
  /\ userTimestamps[event.from_user.id] = << clock - (PrintRateLimitSeconds - 1) >>

\* C29: an update whose sender is not whitelisted never reaches the handler
\* behind AuthMiddleware, is answered "Access denied", and None is returned,
\* so nothing is enqueued for it; for a whitelisted sender and for an update
\* without a sender that handler is called exactly once and AuthMiddleware
\* returns what it returned
C29_Authorized ==
  event # NoEvent =>
    IF event.from_user.known /\ event.from_user.id \notin Whitelist
      THEN /\ calls = NoCalls
           /\ returned = Returned("None", "unset")
           /\ answers = << AccessDenied >>
           /\ tasks = <<>>
           /\ queue = <<>>
      ELSE /\ calls.throttle = 1
           /\ returned.auth = returned.throttle
           /\ returned.auth \in {HandlerResult, "None"}
           /\ AccessDenied \notin { answers[k] : k \in 1..Len(answers) }

\* a stranger was turned away after a whitelisted user had been served
C29_Witness ==
  /\ event.from_user = User(Stranger)
  /\ answers = << AccessDenied >>
  /\ \E u \in Whitelist : userTimestamps[u] # <<>>


\* ----------------------------------------------------------------------
\* Properties of the handlers
\* ----------------------------------------------------------------------
\* the text after the command of a /qr message: what follows the first run
\* of non-whitespace characters, without the whitespace around it
AfterCommand(t) ==
  LET gaps == { i \in 1..Len(t) : t[i] \in {" ", "\n"} } IN
  IF gaps = {} THEN <<>>
  ELSE Trimmed(SubSeq(t, CHOOSE i \in gaps : \A j \in gaps : i <= j, Len(t)))

\* the step put exactly one task of the kind on the queue, at its tail
EnqueuedOne(kind) ==
  /\ Len(tasks') = Len(tasks) + 1
  /\ SubSeq(tasks', 1, Len(tasks)) = tasks
  /\ tasks'[Len(tasks')].payload.kind = kind
  /\ queue' = Append(queue, Len(tasks'))
  /\ unfinished' = unfinished + 1

\* C30: handle_message puts exactly one text task on the queue, holding the
\* message text (the caption when there is no text) as a stripped string or
\* as segments that concatenate to it, and replies "Queued for printing!",
\* when the text is not blank and has at most 1000 characters; when it is
\* blank or longer it leaves the queue as it is and replies with an error.
\* qr_handler puts exactly one QR task on the queue iff the text after the
\* command is not empty and has at most 500 characters, and otherwise
\* replies with an error
C30_HandlersEnqueue ==
  [][ /\ \A m \in TextMessages :
           message' = m =>
             LET text == TextOf(m) IN
             IF Trimmed(text) # <<>> /\ Len(text) <= 1000
               THEN /\ EnqueuedOne("text")
                    /\ replies' = << QueuedForPrinting >>
                    /\ tasks'[Len(tasks')].payload.plain = (queueItem'.type = "str")
                    /\ IF queueItem'.type = "str"
                         THEN queueItem'.value = Trimmed(text)
                         ELSE /\ tasks'[Len(tasks')].payload.job = queueItem'.value
                              /\ Concat(queueItem'.value) = text
               ELSE /\ UNCHANGED <<queue, tasks, unfinished, blocked>>
                    /\ replies' \in { << SendTextToPrint >>, << TooLongReply >> }
      /\ \A m \in QrMessages :
           message' = m =>
             LET text == AfterCommand(m.text.value) IN
             IF text # <<>> /\ Len(text) <= 500
               THEN /\ EnqueuedOne("qr")
                    /\ replies' = << QrQueued >>
               ELSE /\ UNCHANGED <<queue, tasks, unfinished, blocked>>
                    /\ replies' \in { << QrUsage >>, << QrTooLong >> } ]_vars

\* a text of exactly 1000 characters was queued as the second task
C30_Witness ==
  /\ message.text = PyStr(Repeat("x", 1000))
  /\ replies = << QueuedForPrinting >>
  /\ queueItem = PyStr(Repeat("x", 1000))
  /\ Len(tasks) = 2
  /\ queue = << 1, 2 >>

\* ----------------------------------------------------------------------
\* Properties of one render attempt (_do_print_task)
\* ----------------------------------------------------------------------
\* a call of the header or body phase that failed with an exception no except
\* clause of the phase catches: a line or text write, a QR emission (a
\* TypeError of the first form is caught by the fallback), the image decode,
\* the density set, the raster emission
Aborting(e) ==
  \/ e.cmd \in {"textln", "text", "image", "pil"} /\ e.res # "ok"
  \/ e.cmd = "qr" /\ e.res = "err"
  \/ e.cmd = "set" /\ e.arg = "density" /\ e.res # "ok"

\* a command of the header phase, the body phase or the cut phase, as opposed
\* to the removal of the temp file in the finally clause of _do_print_image
PhaseCommand(e) == e.cmd \in DeviceCalls \cup {"pil"}

BodyKind(e) ==
  CASE e.cmd = "text" \/ (e.cmd = "textln" /\ e.arg = "content") -> "text"
    [] e.cmd = "qr" -> "qr"
    [] e.cmd \in {"image", "pil"} \/ (e.cmd = "set" /\ e.arg = "density") -> "image"
    [] OTHER -> "none"

\* a command only _print_header issues
HeaderCommand(e) == e.arg \in {"font=b", "line1", "rule", "blank"}

\* the attempt of the consumer's job has returned
Succeeded == cur # 0 /\ tpc["consumer"] = "ret"

\* C32: a render attempt that succeeded went through the header phase iff the
\* task has a header, then through the body of the task's own payload kind
\* only, then through the cut: header commands are in its log iff the header
\* is present and precede every body command, exactly one cut was accepted,
\* and that cut is the last command of the attempt
C32_PhaseOrder ==
  Succeeded =>
    LET l == log["consumer"]
        hdr == { k \in 1..Len(l) : HeaderCommand(l[k]) }
        bdy == { k \in 1..Len(l) : BodyKind(l[k]) # "none" }
        cuts == { k \in 1..Len(l) : l[k].cmd = "cut" }
    IN /\ (hdr # {}) = Task.header
       /\ \A h \in hdr : \A b \in bdy : h < b
       /\ \A b \in bdy : BodyKind(l[b]) = Task.payload.kind
       /\ Task.payload.kind \in {"qr", "image"} => bdy # {}
       /\ cuts # {}
       /\ \A h \in hdr : \A c \in cuts : h < c
       /\ \A b \in bdy : \A c \in cuts : b < c
       /\ Cardinality({ c \in cuts : l[c].res = "ok" }) = 1
       /\ l[Len(l)].cmd = "cut" /\ l[Len(l)].res = "ok"

\* a QR task without a header was rendered, the second cut form being the
\* one the device accepted
C32_Witness ==
  /\ Succeeded
  /\ ~Task.header
  /\ Task.payload.kind = "qr"
  /\ log["consumer"][Len(log["consumer"])].arg = "mode=PART"

\* ----------------------------------------------------------------------
\* Properties of the header
\* ----------------------------------------------------------------------
\* "{timestamp} {user}"
Stamped(h) == h.timestamp \o << " " >> \o h.user

\* the call of _print_header got as far as its last line
HeaderWritten == Len(headerLog) > 4

\* C33: _print_header first switches to font b, then writes the line
\* "{timestamp} {user}" cut to its first width characters, then a line of
\* exactly width dashes, then an empty line, then resets the style to the
\* baseline; whether the font switch raised or not, the line writes follow it
C33_HeaderOrder ==
  headerLog # <<>> =>
    LET l == headerLog
        kinds == [k \in 1..Len(l) |-> << l[k].cmd, l[k].arg >>]
        order == << <<"set", "font=b">>, <<"textln", "line1">>, <<"textln", "rule">>,
                    <<"textln", "blank">>, <<"set", "baseline">> >>
    IN /\ Len(l) >= 2
       /\ Len(l) <= 5
       /\ kinds = SubSeq(order, 1, Len(l))
       /\ Len(l) < 5 => l[Len(l)].cmd = "textln" /\ l[Len(l)].res = "err"
       /\ \A k \in 1..(Len(l) - 1) : l[k].cmd = "textln" => l[k].res = "ok"
       /\ Len(l[2].text) <= width
       /\ Len(l[2].text) = Len(Stamped(header)) \/ Len(l[2].text) = width
       /\ \A i \in 1..Len(l[2].text) : l[2].text[i] = Stamped(header)[i]
       /\ Len(l) >= 3 =>
            /\ Len(l[3].text) = width
            /\ \A i \in 1..width : l[3].text[i] = "-"
       /\ Len(l) >= 4 => l[4].text = <<>>

\* the font switch raised, the first line was cut to the width, and the rule,
\* the blank line and the reset followed
C33_Witness ==
  /\ HeaderWritten
  /\ headerLog[1].res = "err"
  /\ width = 3
  /\ Len(Stamped(header)) = 5
  /\ Len(headerLog[2].text) = 3

\* ----------------------------------------------------------------------
\* Properties of _cut
\* ----------------------------------------------------------------------
\* the keyword arguments of the three call forms, in the order of _cut
CutForms == << "partial=True", "mode=PART", "" >>

\* the cut calls of the job of flow f
CutCalls(f) == SelectSeq(log[f], LAMBDA e : e.cmd = "cut")

\* C34: the cut calls of a job are the forms cut(partial=True),
\* cut(mode="PART"), cut() from the first one on and in that order; each form
\* but the last one tried raised a TypeError; after a TypeError of the first
\* or second form the next form is due, a form that returned ends the job
\* with success and a form that failed otherwise (or the third form, however
\* it failed) ends it with that exception
C34_CutForms ==
  \A f \in Flows :
    LET cuts == CutCalls(f)
        n == Len(cuts)
    IN /\ n <= 3
       /\ \A k \in 1..n : cuts[k].arg = CutForms[k]
       /\ \A k \in 1..(n - 1) : cuts[k].res = "type"
       /\ n > 0 =>
            /\ log[f][Len(log[f])] = cuts[n]
            /\ tpc[f] = CASE cuts[n].res = "ok" -> "ret"
                          [] cuts[n].res = "err" -> "raise"
                          [] cuts[n].res = "type" ->
                               (CASE n = 1 -> "cut2" [] n = 2 -> "cut3" [] n = 3 -> "raise")

\* the first form failed for another reason than its signature and the job
\* has raised without a second cut call
C34_Witness ==
  LET cuts == CutCalls("consumer") IN
  /\ Len(cuts) = 1
  /\ cuts[1].res = "err"
  /\ tpc["consumer"] = "raise"

\* ----------------------------------------------------------------------
\* Properties of _enhance_image
\* ----------------------------------------------------------------------
\* the steps in the order the enhancement applies them
StepOrder == << "grayscale", "contrast", "sharpness", "brightness", "dithering" >>

\* the step is switched on: its toggle is set, or its strength is not 1.0
StepEnabled(op) ==
  CASE op = "grayscale" -> settings.grayscale
    [] op = "contrast" -> settings.contrast # 10
    [] op = "sharpness" -> settings.sharpness # 10
    [] op = "brightness" -> settings.brightness # 10
    [] op = "dithering" -> settings.dithering

\* C35: the image _enhance_image returns is the given image after exactly the
\* enabled steps, in the order grayscale, contrast, sharpness, brightness,
\* dithering; dithering, when enabled, is the last step; with every step
\* disabled the image returned is the image given
C35_EnhanceOrder ==
  img.result # NoImage =>
    LET done == img.result.steps
        ops == [k \in 1..Len(done) |-> done[k].op]
    IN /\ ops = SelectSeq(StepOrder, StepEnabled)
       /\ settings.dithering => ops[Len(ops)] = "dithering" /\ img.result.mode = "1"
       /\ (\A k \in 1..5 : ~StepEnabled(StepOrder[k])) => img.result = img.given

\* contrast and sharpness were off: grayscale, brightness and dithering were
\* applied, in that order
C35_Witness ==
  /\ img.result # NoImage
  /\ img.result.steps =
       << Step("grayscale", 10), Step("brightness", settings.brightness),
          Step("dithering", 10) >>

\* ----------------------------------------------------------------------
\* Properties of the style calls
\* ----------------------------------------------------------------------
\* the job of the consumer is leaving with an exception: it has raised, or
\* it is in the finally clause of _do_print_image on its way out
Failing == tpc["consumer"] \in {"raise", "img_unlink_exc"}

\* the commands of the phases in the consumer's log, the temp file removal left out
PhaseLog == SelectSeq(log["consumer"], PhaseCommand)

\* C36: a style call (printer.set: the header font switch, a segment's style,
\* a baseline reset, the image density) that raises does not fail the render
\* attempt: no attempt leaves with an exception right after a failed set call
C36_StyleSetSkipped ==
  Failing =>
    LET l == PhaseLog IN
    l # <<>> => ~(l[Len(l)].cmd = "set" /\ l[Len(l)].res # "ok")

\* ----------------------------------------------------------------------
\* Properties of a stalled render attempt
\* ----------------------------------------------------------------------
\* C37: while the render attempt of the consumer loop is under way and makes
\* no progress, a status() call whose probes are running returns a result,
\* and no producer is ever left waiting in queue.put
C37_StatusDuringRender ==
  /\ [](blocked = <<>>)
  /\ (Probing /\ Rendering("consumer")) ~> (spc = "done")

\* status() has returned a result and a second task has been put on the
\* queue while the job of the first task stands before its second header line
C37_Witness ==
  /\ spc = "done"
  /\ sres = StatusResult(TRUE, Paper(2))
  /\ tpc["consumer"] = "hdr_rule"
  /\ queue = << 2 >>

HeaderDone(l) == \E k \in 1..Len(l) : l[k].arg = "blank" /\ l[k].res = "ok"

\* the job wrote its whole body: it got as far as _cut, which follows the body
BodyDone(l) == \E k \in 1..Len(l) : l[k].cmd = "cut"

\* the job wrote a header line or a part of the body
Wrote(l) ==
  \E k \in 1..Len(l) : l[k].cmd \in {"textln", "text", "qr", "image"} /\ l[k].res = "ok"

\* C39: the output of a task is written at most once across its attempts:
\* once an attempt of task i has written the header lines or the body
\* completely, no later attempt of task i writes a header line or a part of
\* the body
C39_WrittenOnce ==
  \A i \in Ids : \A a \in 0..(MaxAttempts - 1) :
    []( (cur = i /\ attempt["consumer"] = a
           /\ (HeaderDone(log["consumer"]) \/ BodyDone(log["consumer"])))
        => [](~(cur = i /\ attempt["consumer"] > a /\ Wrote(log["consumer"]))) )

\* ----------------------------------------------------------------------
\* Properties of the rate limit
\* ----------------------------------------------------------------------
\* C40: with the middlewares of setup(), any two tasks a whitelisted user had
\* put on the queue (text, QR or image) are at least PRINT_RATE_LIMIT_SECONDS
\* apart: no period of that length holds two of them
C40_OnePrintPerPeriod ==
  \A u \in Whitelist :
    \A k \in 2..Len(putTimes[u]) :
      putTimes[u][k] - putTimes[u][k - 1] >= PrintRateLimitSeconds

====
